---- MODULE Spec2Model ----
(***************************************************************************)
(* AutoExaminer, Evaluator package: the answer-key parser                  *)
(* (answer_key_extractor.py) and the evaluation engine                     *)
(* (answer_evaluator.py).                                                  *)
(*                                                                         *)
(* Text is a sequence of one-character strings; the regular expressions of *)
(* the source are matchers over such sequences.  Scores are integers in    *)
(* tenths of a mark (the heuristic scorer rounds to one decimal).          *)
(***************************************************************************)
EXTENDS Integers, Sequences, FiniteSets, TLC

VARIABLES
    \* ---- AnswerKeyExtractor._parse_answer_key ----
    key_lines,            \* the lines of the key text read so far
    ppc,                  \* "parsing" | "done" | "raised"
    result,               \* [questions, metadata]
    current_question,     \* None or the open question number
    current_subquestion,  \* None or the open sub-question letter
    answer_text_buffer,   \* list of texts
    last_line,            \* the line the last parser step consumed
    earlier_parse,        \* a call of _parse_answer_key returned or raised
                          \* before the one in progress
    \* ---- AnswerKeyExtractor.extract_answers ----
    file_path,            \* self.file_path
    file_exists,          \* what os.path.exists answers for it
    pages,                \* the text of each page of the file
    xpc,                  \* "start" | "returned" | the exception raised
    opened,               \* fitz.open has been called
    structured_answers,   \* None or the document returned
    \* ---- AnswerSheetProcessor.extract_answers_from_ocr ----
    ocr_lines,            \* the lines of ocr_text read so far
    opc,                  \* "idle" | "reading" | "returned"
    ocr_answers,          \* its answers: question number -> answer
    ocr_question,         \* its current_question: None or a number
    current_answer_lines, \* list of trimmed lines
    \* ---- AnswerEvaluator._parse_subquestions ----
    sub_text,             \* its answer_text
    spc,                  \* "idle" | "start" | "returned"
    sub_parts,            \* None or the dict returned
    \* ---- AnswerEvaluator._estimate_score ----
    est_answer,           \* its student_answer
    est_key_data,         \* its answer_key_data
    est_max_score,        \* its max_score, in tenths
    est_out,              \* None or the (score, feedback) returned
    epc,                  \* "idle" | "start" | "returned"
    \* ---- AnswerSheetProcessor.process_answer_sheets ----
    answer_sheets,        \* the number of sheets list_files_in_folder returned
    sheet_fates,          \* per sheet handled so far, the step that raised (or "none")
    all_results,          \* the sheets (by position) whose results were appended
    consolidated,         \* None or the list given to _generate_consolidated_results
    shpc,                 \* "idle" | "loop" | "returned" | "raised"
    \* ---- AzureOCR.recognize_handwriting ----
    polls,                \* the polls made so far
    poll_result,          \* its result: None or the last response
    extracted_text,       \* None or the text returned
    plpc,                 \* "idle" | "polling" | "polled" | "returned"
    \* ---- AnswerSheetProcessor.process_answer_sheets, lines 114 and 162-169 ----
    earlier_sheet,        \* an earlier sheet of this run was passed to evaluate_answers
    \* ---- AnswerEvaluator.evaluate_answers ----
    pc,                   \* "idle" | "waiting" | "done" | "raised"
    answer_key,           \* the structured key being graded against
    student_answers,      \* the submission: question number -> answer text
    results,              \* [questions, summary]
    mcq_results,          \* question number -> result
    descriptive_questions,\* the items of the batched request
    response,             \* what the grading collaborator did
    outcome,              \* how the batched attempt ended
    scored_by,            \* item id -> "collaborator" | "heuristic"
    calls                 \* calls of model.generate_content in this run

parserVars == <<key_lines, ppc, result, current_question, current_subquestion,
                answer_text_buffer, last_line, earlier_parse>>
fileVars == <<file_path, file_exists, pages, xpc, opened, structured_answers>>
ocrVars == <<ocr_lines, opc, ocr_answers, ocr_question,
             current_answer_lines>>
subVars == <<sub_text, spc, sub_parts>>
estVars == <<est_answer, est_key_data, est_max_score, est_out, epc>>
sheetVars == <<answer_sheets, sheet_fates, all_results, consolidated, shpc>>
pollVars == <<polls, poll_result, extracted_text, plpc>>
seqVars == <<earlier_sheet>>
evalVars == <<pc, answer_key, student_answers, results, mcq_results,
              descriptive_questions, response, outcome, scored_by, calls>>
vars == <<earlier_sheet,
          polls, poll_result, extracted_text, plpc,
          answer_sheets, sheet_fates, all_results, consolidated, shpc,
          est_answer, est_key_data, est_max_score, est_out, epc,
          key_lines, ppc, result, current_question, current_subquestion,
          answer_text_buffer, last_line, earlier_parse, file_path,
          file_exists, pages, xpc, opened, structured_answers, ocr_lines,
          opc, ocr_answers, ocr_question, current_answer_lines, sub_text,
          spc, sub_parts, pc,
          answer_key,
          student_answers,
          results, mcq_results, descriptive_questions, response, outcome,
          scored_by, calls>>

\* Python's None: a value no text equals.
None == <<"<None>">>
\* Python truthiness of a string-or-None
Truthy(x) == x # None /\ x # <<>>
\* a dict with no keys
EmptyDict == <<>>
\* d[k] = v
Put(d, k, v) == [x \in (DOMAIN d) \cup {k} |-> IF x = k THEN v ELSE d[x]]

-----------------------------------------------------------------------------
\* Characters and strings

Digits == <<"0", "1", "2", "3", "4", "5", "6", "7", "8", "9">>
LowerSeq == <<"a", "b", "c", "d", "e", "f", "g", "h", "i", "j", "k", "l", "m",
              "n", "o", "p", "q", "r", "s", "t", "u", "v", "w", "x", "y", "z">>
UpperSeq == <<"A", "B", "C", "D", "E", "F", "G", "H", "I", "J", "K", "L", "M",
              "N", "O", "P", "Q", "R", "S", "T", "U", "V", "W", "X", "Y", "Z">>

Range(f) == {f[i] : i \in DOMAIN f}

\* the character classes \d and \s
DigitChars == Range(Digits)
SpaceChars == {" ", "\n", "\t"}

\* \d
IsDigit(c) == c \in DigitChars
\* [a-z]
IsLower(c) == c \in Range(LowerSeq)
\* [A-Z]
IsUpper(c) == c \in Range(UpperSeq)
\* \s
IsSpace(c) == c \in SpaceChars
\* \w
WordChars == DigitChars \cup Range(LowerSeq) \cup Range(UpperSeq) \cup {"_"}
IsWordChar(c) == c \in WordChars

DigitVal(c) == (CHOOSE i \in DOMAIN Digits : Digits[i] = c) - 1

\* str.lower() / str.upper(), one character
LowerChar(c) == IF IsUpper(c)
                THEN LowerSeq[CHOOSE i \in DOMAIN UpperSeq : UpperSeq[i] = c]
                ELSE c
UpperChar(c) == IF IsLower(c)
                THEN UpperSeq[CHOOSE i \in DOMAIN LowerSeq : LowerSeq[i] = c]
                ELSE c
\* str.lower()
Lower(s) == [i \in DOMAIN s |-> LowerChar(s[i])]

\* str.strip()
Strip(s) ==
    LET keep == {i \in DOMAIN s : ~IsSpace(s[i])}
    IN  IF keep = {} THEN <<>>
        ELSE LET lo == CHOOSE i \in keep : \A j \in keep : i <= j
                 hi == CHOOSE i \in keep : \A j \in keep : j <= i
             IN  SubSeq(s, lo, hi)

\* sep.join(parts)
RECURSIVE Join(_, _)
Join(parts, sep) ==
    IF parts = <<>> THEN <<>>
    ELSE IF Len(parts) = 1 THEN parts[1]
    ELSE parts[1] \o sep \o Join(Tail(parts), sep)

NL == <<"\n">>

\* s.split(ch)
RECURSIVE Split(_, _)
Split(s, ch) ==
    LET cuts == {i \in DOMAIN s : s[i] = ch}
    IN  IF cuts = {} THEN <<s>>
        ELSE LET c == CHOOSE i \in cuts : \A j \in cuts : i <= j
             IN  <<SubSeq(s, 1, c - 1)>> \o Split(SubSeq(s, c + 1, Len(s)), ch)

\* needle in haystack (substring test)
Contains(haystack, needle) ==
    \E i \in 0..(Len(haystack) - Len(needle)) :
        \A j \in 1..Len(needle) : haystack[i + j] = needle[j]

\* int(digits)
RECURSIVE ParseInt(_)
ParseInt(ds) == IF ds = <<>> THEN 0
           ELSE 10 * ParseInt(SubSeq(ds, 1, Len(ds) - 1)) + DigitVal(ds[Len(ds)])

\* number of leading digits of s
LeadingDigits(s) ==
    CHOOSE k \in 0..Len(s) :
        /\ \A i \in 1..k : IsDigit(s[i])
        /\ (k = Len(s) \/ ~IsDigit(s[k + 1]))

\* number of consecutive characters of the class cls that end at position e
\* of s (a greedy cls* read backwards from e)
RunEndingAt(s, e, cls) ==
    CHOOSE k \in 0..e :
        /\ \A i \in (e - k + 1)..e : s[i] \in cls
        /\ (k = e \/ s[e - k] \notin cls)

\* number of consecutive characters of the class cls that start at position b
\* of s (a greedy cls*)
RunStartingAt(s, b, cls) ==
    CHOOSE k \in 0..(Len(s) - b + 1) :
        /\ \A i \in b..(b + k - 1) : s[i] \in cls
        /\ (b + k > Len(s) \/ s[b + k] \notin cls)

-----------------------------------------------------------------------------
\* The patterns of _parse_answer_key.  Each matcher returns [ok |-> FALSE] or
\* [ok |-> TRUE, ...groups...].  A matcher reads the line left to right (or,
\* for a pattern anchored at the end, right to left); each local operator
\* below continues the match from the positions found so far.

NoMatch == [ok |-> FALSE]

\* question_pattern = ^(\d+)\.(.*)$
question_pattern(line) ==
    LET n == LeadingDigits(line)
    IN  IF n >= 1 /\ n < Len(line) /\ line[n + 1] = "."
        THEN [ok |-> TRUE, g1 |-> SubSeq(line, 1, n),
              g2 |-> SubSeq(line, n + 2, Len(line))]
        ELSE NoMatch

\* mcq_pattern = ^(\d+)\.\s*([A-D])\s*\((.*)\)$
mcq_pattern(line) ==
    LET \* p: where \( must stand
        AtParen(n, a, p) ==
            IF p < Len(line) /\ line[p] = "(" /\ line[Len(line)] = ")"
            THEN [ok |-> TRUE, g1 |-> SubSeq(line, 1, n), g2 |-> <<line[a]>>,
                  g3 |-> SubSeq(line, p + 1, Len(line) - 1)]
            ELSE NoMatch
        \* a: where the option letter must stand
        AtOption(n, a) ==
            IF a <= Len(line) /\ line[a] \in {"A", "B", "C", "D"}
            THEN AtParen(n, a, a + 1 + RunStartingAt(line, a + 1, SpaceChars))
            ELSE NoMatch
        \* n: the length of the question number
        AfterNumber(n) ==
            IF n >= 1 /\ n < Len(line) /\ line[n + 1] = "."
            THEN AtOption(n, n + 2 + RunStartingAt(line, n + 2, SpaceChars))
            ELSE NoMatch
    IN  AfterNumber(LeadingDigits(line))

\* subquestion_pattern = ^([a-z])\)(.*)|^([a-z]\))(.*)$
\* The first alternative matches whenever the second would, so groups 3 and 4
\* are always None.
subquestion_pattern(line) ==
    IF Len(line) >= 2 /\ IsLower(line[1]) /\ line[2] = ")"
    THEN [ok |-> TRUE, g1 |-> <<line[1]>>, g2 |-> SubSeq(line, 3, Len(line)),
          g3 |-> None, g4 |-> None]
    ELSE NoMatch

\* marks_pattern = \((\d+)\)$|\((\d+)\s*marks?\)$ , used with .search().
\* Both alternatives end at the end of the text, and at most one can match:
\* the character before the closing bracket is a digit in the first and a
\* letter in the second.
MarksWord == <<"m", "a", "r", "k">>

\* \((\d+)\)$
marks_digits(text) ==
    LET n == Len(text)
        \* d: the number of digits before the closing bracket
        Open(d) ==
            IF d >= 1 /\ n - 1 - d >= 1 /\ text[n - 1 - d] = "("
            THEN [ok |-> TRUE, g1 |-> SubSeq(text, n - d, n - 1), g2 |-> None]
            ELSE NoMatch
    IN  IF n >= 1 /\ text[n] = ")"
        THEN Open(RunEndingAt(text, n - 1, DigitChars))
        ELSE NoMatch

\* \((\d+)\s*marks?\)$
marks_word(text) ==
    LET n == Len(text)
        \* w: where "mark" ends; sp: the spaces before it; d: the digits
        \* before those
        Open(w, sp, d) ==
            IF d >= 1 /\ w - 4 - sp - d >= 1 /\ text[w - 4 - sp - d] = "("
            THEN [ok |-> TRUE, g1 |-> None,
                  g2 |-> SubSeq(text, w - 3 - sp - d, w - 4 - sp)]
            ELSE NoMatch
        Number(w, sp) == Open(w, sp, RunEndingAt(text, w - 4 - sp, DigitChars))
        Word(w) ==
            IF w >= 4 /\ SubSeq(text, w - 3, w) = MarksWord
            THEN Number(w, RunEndingAt(text, w - 4, SpaceChars))
            ELSE NoMatch
    IN  IF n >= 1 /\ text[n] = ")"
        THEN Word(IF n >= 2 /\ text[n - 1] = "s" THEN n - 2 ELSE n - 1)
        ELSE NoMatch

marks_pattern(text) ==
    LET Or(first) == IF first.ok THEN first ELSE marks_word(text)
    IN  Or(marks_digits(text))

\* marks = int(m.group(1) or m.group(2)) if m else 1
MarksOf(text) ==
    LET Value(m) ==
            IF m.ok THEN ParseInt(IF m.g1 # None THEN m.g1 ELSE m.g2) ELSE 1
    IN  Value(marks_pattern(text))

-----------------------------------------------------------------------------
\* AnswerKeyExtractor._parse_answer_key as a step function over the lines.
\* A parser state is [result, current_question, current_subquestion,
\* answer_text_buffer, raised].  A Python dict with optional keys is a record
\* with a has_<key> flag per optional key.

ParserInit ==
    [result |-> [questions |-> EmptyDict,
                 metadata |-> [total_questions |-> 0, total_marks |-> 0]],
     current_question |-> None,
     current_subquestion |-> None,
     answer_text_buffer |-> <<>>,
     raised |-> FALSE]

\* the dict literal of lines 94-99
McqEntry(answer, marks, line) ==
    [type |-> "mcq", answer |-> answer, marks |-> marks, key_points |-> <<>>,
     full_text |-> line, has_answer_text |-> FALSE, answer_text |-> None,
     has_subquestions |-> FALSE, subquestions |-> EmptyDict]

\* the dict literal of lines 127-132
DescriptiveEntry(marks, line) ==
    [type |-> "descriptive", answer |-> None, marks |-> marks,
     key_points |-> <<>>, full_text |-> line, has_answer_text |-> FALSE,
     answer_text |-> None, has_subquestions |-> FALSE,
     subquestions |-> EmptyDict]

\* the dict literal of lines 161-165
SubEntry(marks, line) ==
    [marks |-> marks, key_points |-> <<>>, full_text |-> line,
     has_answer_text |-> FALSE, answer_text |-> None]

\* questions[q]["answer_text"] = text
SetAnswerText(questions, q, text) ==
    [questions EXCEPT ![q].has_answer_text = TRUE, ![q].answer_text = text]

\* questions[q]["subquestions"][l]["answer_text"] = text
SetSubAnswerText(questions, q, l, text) ==
    [questions EXCEPT ![q].subquestions[l].has_answer_text = TRUE,
                      ![q].subquestions[l].answer_text = text]

\* lines 111-117: the buffer of the question in progress is saved when a
\* question header arrives
FlushOnQuestion(ps) ==
    LET qs == ps.result.questions
        cq == ps.current_question
        cs == ps.current_subquestion
        text == Join(ps.answer_text_buffer, NL)
    IN  IF Truthy(cq) /\ ps.answer_text_buffer # <<>> /\ cq \in DOMAIN qs
        THEN IF Truthy(cs)
             THEN IF qs[cq].has_subquestions
                  THEN SetSubAnswerText(qs, cq, cs, text)
                  ELSE qs
             ELSE SetAnswerText(qs, cq, text)
        ELSE qs

\* lines 144-146: the buffer of the sub-question in progress is saved when a
\* sub-question header arrives
FlushOnSubquestion(ps) ==
    LET qs == ps.result.questions
        cq == ps.current_question
        cs == ps.current_subquestion
    IN  IF Truthy(cs) /\ ps.answer_text_buffer # <<>>
           /\ qs[cq].has_subquestions
        THEN SetSubAnswerText(qs, cq, cs, Join(ps.answer_text_buffer, NL))
        ELSE qs

\* lines 85-105
McqLine(ps, line, m) ==
    LET Store(explanation, marks) ==
            [ps EXCEPT
                !.result.questions = Put(@, m.g1, McqEntry(m.g2, marks, line)),
                !.result.metadata.total_questions = @ + 1,
                !.result.metadata.total_marks = @ + marks,
                !.current_question = m.g1,
                !.current_subquestion = None,
                !.answer_text_buffer = <<explanation>>]
        WithText(explanation) == Store(explanation, MarksOf(explanation))
    IN  WithText(Strip(m.g3))

\* lines 109-138
QuestionLine(ps, line, m) ==
    LET Store(rest_of_line, marks) ==
            [ps EXCEPT
                !.result.questions =
                    Put(FlushOnQuestion(ps), m.g1, DescriptiveEntry(marks, line)),
                !.result.metadata.total_questions = @ + 1,
                !.result.metadata.total_marks = @ + marks,
                !.current_question = m.g1,
                !.current_subquestion = None,
                !.answer_text_buffer = <<rest_of_line>>]
        WithText(rest_of_line) == Store(rest_of_line, MarksOf(rest_of_line))
    IN  WithText(Strip(m.g2))

\* the sub-question dict is attached but the type is left as it was
MakeCompositeKeepType(q_data) ==
    IF q_data.has_subquestions THEN q_data
    ELSE [q_data EXCEPT !.has_subquestions = TRUE,
                        !.subquestions = EmptyDict]

\* lines 155-158: the first sub-question turns the question composite
MakeComposite(q_data) ==
    IF q_data.has_subquestions THEN q_data
    ELSE [q_data EXCEPT !.has_subquestions = TRUE,
                        !.subquestions = EmptyDict,
                        !.type = "composite"]

\* lines 142-173.  (group(2) or group(4)).strip() raises AttributeError when
\* group(2) is empty, group(4) being None.
SubquestionLine(ps, line, m) ==
    LET cq == ps.current_question
        sub_letter == IF Truthy(m.g1) THEN m.g1 ELSE m.g3
        picked == IF Truthy(m.g2) THEN m.g2 ELSE m.g4
        Attached(flushed) == [flushed EXCEPT ![cq] = MakeComposite(@)]
        Store(flushed, rest_of_line, marks) ==
            [ps EXCEPT
                !.result.questions =
                    [Attached(flushed) EXCEPT
                        ![cq].subquestions = Put(@, sub_letter, SubEntry(marks, line)),
                        ![cq].marks = 0],
                !.result.metadata.total_marks = @ + marks - flushed[cq].marks,
                !.current_subquestion = sub_letter,
                !.answer_text_buffer = <<rest_of_line>>]
        WithText(flushed, rest_of_line) ==
            Store(flushed, rest_of_line, MarksOf(rest_of_line))
        AfterFlush(flushed) ==
            IF picked = None
            THEN [ps EXCEPT !.result.questions = flushed, !.raised = TRUE]
            ELSE WithText(flushed, Strip(picked))
    IN  AfterFlush(FlushOnSubquestion(ps))

\* as ContinuationLine, but the line is kept also when no question is open
ContinuationLineAlways(ps, line) ==
    [ps EXCEPT !.answer_text_buffer = Append(@, line)]

\* lines 176-177
ContinuationLine(ps, line) ==
    IF Truthy(ps.current_question)
    THEN [ps EXCEPT !.answer_text_buffer = Append(@, line)]
    ELSE ps

\* the same iteration with the question header tried before the MCQ line
ParseLineQuestionFirst(ps, line) ==
    LET Branch(mcq_match, q_match, sub_match) ==
            IF q_match.ok THEN QuestionLine(ps, line, q_match)
            ELSE IF mcq_match.ok THEN McqLine(ps, line, mcq_match)
            ELSE IF sub_match.ok /\ Truthy(ps.current_question)
                 THEN SubquestionLine(ps, line, sub_match)
            ELSE ContinuationLine(ps, line)
    IN  Branch(mcq_pattern(line), question_pattern(line),
               subquestion_pattern(line))

\* one iteration of the loop of lines 82-177
ParseLine(ps, line) ==
    LET Branch(mcq_match, q_match, sub_match) ==
            IF mcq_match.ok THEN McqLine(ps, line, mcq_match)
            ELSE IF q_match.ok THEN QuestionLine(ps, line, q_match)
            ELSE IF sub_match.ok /\ Truthy(ps.current_question)
                 THEN SubquestionLine(ps, line, sub_match)
            ELSE ContinuationLine(ps, line)
    IN  Branch(mcq_pattern(line), question_pattern(line),
               subquestion_pattern(line))

\* lines 180-184
FlushAtEnd(ps) ==
    LET qs == ps.result.questions
        cq == ps.current_question
        cs == ps.current_subquestion
        text == Join(ps.answer_text_buffer, NL)
    IN  IF Truthy(cq) /\ ps.answer_text_buffer # <<>>
        THEN IF Truthy(cs) /\ qs[cq].has_subquestions
             THEN SetSubAnswerText(qs, cq, cs, text)
             ELSE SetAnswerText(qs, cq, text)
        ELSE qs

\* [p.strip() for p in re.split(r'[.;](?=\s|$)', text) if p.strip()]
RECURSIVE SplitPoints(_)
SplitPoints(text) ==
    LET cuts == {i \in DOMAIN text :
                    /\ text[i] \in {".", ";"}
                    /\ (i = Len(text) \/ IsSpace(text[i + 1]))}
    IN  IF cuts = {} THEN <<text>>
        ELSE LET c == CHOOSE i \in cuts : \A j \in cuts : i <= j
             IN  <<SubSeq(text, 1, c - 1)>>
                 \o SplitPoints(SubSeq(text, c + 1, Len(text)))

\* [p for p in parts if p]
RECURSIVE NonEmpty(_)
NonEmpty(parts) ==
    IF parts = <<>> THEN <<>>
    ELSE (IF Head(parts) # <<>> THEN <<Head(parts)>> ELSE <<>>)
         \o NonEmpty(Tail(parts))
StripEach(ps) == [i \in DOMAIN ps |-> Strip(ps[i])]
KeyPointsOf(text) == NonEmpty(StripEach(SplitPoints(text)))

\* _extract_key_points
ExtractKeyPoints(questions) ==
    [q \in DOMAIN questions |->
        LET q_data == questions[q]
        IN  IF q_data.type = "mcq" THEN q_data
            ELSE IF q_data.type = "descriptive"
            THEN IF q_data.has_answer_text
                 THEN [q_data EXCEPT !.key_points = KeyPointsOf(q_data.answer_text)]
                 ELSE q_data
            ELSE [q_data EXCEPT !.subquestions =
                    [l \in DOMAIN q_data.subquestions |->
                        LET sub_data == q_data.subquestions[l]
                        IN  IF sub_data.has_answer_text
                            THEN [sub_data EXCEPT
                                    !.key_points = KeyPointsOf(sub_data.answer_text)]
                            ELSE sub_data]]]

\* lines 179-189: what _parse_answer_key returns once the loop has ended
FinishParse(ps) ==
    [questions |-> ExtractKeyPoints(FlushAtEnd(ps)),
     metadata |-> ps.result.metadata]

\* the loop of lines 82-177 over a whole text; it stops where a line raises
RECURSIVE ParseLines(_, _)
ParseLines(ps, lines) ==
    IF lines = <<>> \/ ps.raised THEN ps
    ELSE ParseLines(ParseLine(ps, Head(lines)), Tail(lines))

-----------------------------------------------------------------------------
\* AnswerEvaluator: the pure parts.  Every number of a result (score,
\* max_score, total_score, total_possible) is held in tenths of a mark.

Scale == 10
Tenths(marks) == marks * Scale

\* num / den cut off below instead of rounded
RoundDown(num, den) == num \div den

\* round(num / den) for den > 0, ties to the even neighbour (Python's round)
RoundHalfEven(num, den) ==
    LET q == num \div den
        r == num % den
    IN  IF 2 * r < den THEN q
        ELSE IF 2 * r > den THEN q + 1
        ELSE IF q % 2 = 0 THEN q ELSE q + 1

OptionLetters == {"A", "B", "C", "D", "a", "b", "c", "d"}

\* the least member of a non-empty set of positions
Leftmost(hits) == CHOOSE h \in hits : \A j \in hits : h <= j

\* the same search with [A-D] for [A-Da-d]
option_match_upper(student_answer) ==
    LET s == student_answer
        Upper == {"A", "B", "C", "D"}
        MatchAt(i) ==
            \/ s[i] \in Upper
            \/ /\ (s[i] = "(" \/ IsSpace(s[i]))
               /\ i + 1 <= Len(s)
               /\ s[i + 1] \in Upper
        Group1(i) == IF s[i] \in Upper THEN <<s[i]>> ELSE <<s[i + 1]>>
        First(hits) == IF hits = {} THEN None ELSE Group1(Leftmost(hits))
    IN  First({i \in DOMAIN s : MatchAt(i)})

\* re.search(r'[(\s]?([A-Da-d])[)\s\.]?', student_answer): None, or group(1)
\* of the leftmost match
option_match(student_answer) ==
    LET s == student_answer
        MatchAt(i) ==
            \/ s[i] \in OptionLetters
            \/ /\ (s[i] = "(" \/ IsSpace(s[i]))
               /\ i + 1 <= Len(s)
               /\ s[i + 1] \in OptionLetters
        Group1(i) == IF s[i] \in OptionLetters THEN <<s[i]>> ELSE <<s[i + 1]>>
        First(hits) == IF hits = {} THEN None ELSE Group1(Leftmost(hits))
    IN  First({i \in DOMAIN s : MatchAt(i)})

\* _evaluate_mcq: (score, feedback)
EvaluateMcq(student_answer, answer_key_data) ==
    LET correct_answer == answer_key_data.answer
        max_score == Tenths(answer_key_data.marks)
        \* lines 310-313
        Compare(student_option) ==
            IF student_option = correct_answer
            THEN [score |-> max_score, feedback |-> <<"Correct answer.">>]
            ELSE [score |-> 0,
                  feedback |-> <<"Incorrect answer. You selected ",
                                 student_option,
                                 ", but the correct answer is ",
                                 correct_answer, ".">>]
        \* lines 308-309 and 314-315
        Selected(m) ==
            IF m # None THEN Compare(<<UpperChar(m[1])>>)
            ELSE [score |-> 0,
                  feedback |-> <<"Could not identify a clear option selection. The correct answer is ",
                                 correct_answer, ".">>]
    IN  Selected(option_match(student_answer))

\* re.match(r'^[(\s]*([a-z])[)\s\.](.*)$', line)
sub_marker(line) ==
    LET \* k: the length of the leading run of [(\s]
        Marker(k) ==
            IF /\ k + 2 <= Len(line)
               /\ IsLower(line[k + 1])
               /\ (line[k + 2] \in {")", "."} \/ IsSpace(line[k + 2]))
            THEN [ok |-> TRUE, g1 |-> <<line[k + 1]>>,
                  g2 |-> SubSeq(line, k + 3, Len(line))]
            ELSE NoMatch
    IN  Marker(RunStartingAt(line, 1, {"("} \cup SpaceChars))

\* lines 340-341 and 351-352: the text collected for the sub-question in
\* progress is saved
SaveSub(st) ==
    IF Truthy(st.current_sub) /\ st.current_text # <<>>
    THEN Put(st.subquestions, st.current_sub, Strip(Join(st.current_text, NL)))
    ELSE st.subquestions

\* the loop of _parse_subquestions, lines 334-348; st is
\* [subquestions, current_sub, current_text]
RECURSIVE ParseSubLoop(_, _)
ParseSubLoop(st, lines) ==
    IF lines = <<>> THEN st
    ELSE
    LET line == Head(lines)
        Step(sub_match) ==
            IF sub_match.ok
            THEN [subquestions |-> SaveSub(st),
                  current_sub |-> Lower(sub_match.g1),
                  current_text |-> <<Strip(sub_match.g2)>>]
            ELSE IF Truthy(st.current_sub)
            THEN [st EXCEPT !.current_text = Append(@, line)]
            ELSE st
    IN  ParseSubLoop(Step(sub_marker(Strip(line))), Tail(lines))

\* _parse_subquestions
ParseSubquestions(answer_text) ==
    SaveSub(ParseSubLoop([subquestions |-> EmptyDict, current_sub |-> None,
                          current_text |-> <<>>],
                         Split(answer_text, "\n")))

\* re.findall(r'\b\w{4,}\b', point), lower-cased: the maximal runs of word
\* characters that are at least 4 long, in order
RECURSIVE Keywords(_)
Keywords(point) ==
    LET \* k: the length of the run of word characters at the start
        Run(k) ==
            IF k = 0 THEN Keywords(Tail(point))
            ELSE (IF k >= 4 THEN <<Lower(SubSeq(point, 1, k))>> ELSE <<>>)
                 \o Keywords(SubSeq(point, k + 1, Len(point)))
    IN  IF point = <<>> THEN <<>>
        ELSE Run(RunStartingAt(point, 1, WordChars))

\* lines 405-414 for one key point: does it count as matched
PointMatched(point, student_answer) ==
    LET Matches(keywords) ==
            Cardinality({i \in DOMAIN keywords :
                            Contains(student_answer, keywords[i])})
        Enough(keywords) ==
            keywords # <<>> /\ 2 * Matches(keywords) > Len(keywords)
    IN  Enough(Keywords(point))

FeedbackAll == <<"Answer addresses all key points correctly.">>
FeedbackMany == <<"Answer addresses many key points but is missing some important details.">>
FeedbackFew == <<"Answer is missing several key points or contains inaccuracies.">>
FeedbackUnable == <<"Unable to evaluate answer due to missing reference points.">>

\* lines 398-401: the key points given, or those of the answer text
KeyPointsFor(answer_key_data) ==
    IF answer_key_data.key_points = <<>> /\ answer_key_data.has_answer_text
    THEN [i \in DOMAIN KeyPointsOf(answer_key_data.answer_text) |->
             Lower(KeyPointsOf(answer_key_data.answer_text)[i])]
    ELSE answer_key_data.key_points

\* the same scorer with every keyword found counted as a matched point
EstimateScoreCountsKeywords(student_answer_raw, answer_key_data, max_score) ==
    LET student_answer == Lower(student_answer_raw)
        \* the keywords of key point i that the answer has
        Found(key_points, i) ==
            {<<i, k>> : k \in {j \in DOMAIN Keywords(key_points[i]) :
                    Contains(student_answer, Keywords(key_points[i])[j])}}
        Score(key_points, matched_points) ==
            [score |-> RoundHalfEven(matched_points * max_score,
                                     Len(key_points)),
             feedback |->
                IF matched_points = Len(key_points) THEN FeedbackAll
                ELSE IF 2 * matched_points > Len(key_points) THEN FeedbackMany
                ELSE FeedbackFew]
        Count(key_points) ==
            IF key_points = <<>>
            THEN [score |-> 0, feedback |-> FeedbackUnable]
            ELSE Score(key_points,
                       Cardinality(UNION {Found(key_points, i) :
                                            i \in DOMAIN key_points}))
    IN  Count(KeyPointsFor(answer_key_data))

\* _estimate_score: (score, feedback); max_score in tenths
EstimateScore(student_answer_raw, answer_key_data, max_score) ==
    LET student_answer == Lower(student_answer_raw)
        \* lines 419-428
        Score(key_points, matched_points) ==
            [score |-> RoundHalfEven(matched_points * max_score,
                                     Len(key_points)),
             feedback |->
                IF matched_points = Len(key_points) THEN FeedbackAll
                ELSE IF 2 * matched_points > Len(key_points) THEN FeedbackMany
                ELSE FeedbackFew]
        \* lines 403-418
        Count(key_points) ==
            IF key_points = <<>>
            THEN [score |-> 0, feedback |-> FeedbackUnable]
            ELSE Score(key_points,
                       Cardinality({i \in DOMAIN key_points :
                            PointMatched(key_points[i], student_answer)}))
    IN  Count(KeyPointsFor(answer_key_data))

\* _estimate_score_with_result
EstimateScoreWithResult(student_answer, answer_key_data, max_score) ==
    LET Result(r) ==
            [score |-> r.score, max_score |-> max_score,
             feedback |-> r.feedback, answer_text |-> student_answer]
    IN  Result(EstimateScore(student_answer, answer_key_data, max_score))

-----------------------------------------------------------------------------
\* The texts the model reads: trimmed non-blank key lines (line 69) and
\* trimmed non-empty answers (main.py line 231)

\* "1. B (x (2))": an MCQ line with a mark annotation
LineMcqMarks ==
    <<"1", ".", " ", "B", " ", "(", "x", " ", "(", "2", ")", ")">>

\* "2. C (x)": an MCQ line without marks
LineMcqPlain ==
    <<"2", ".", " ", "C", " ", "(", "x", ")">>

\* "1. cell gene (2)": a question header
LineQuestion1 ==
    <<"1", ".", " ", "c", "e", "l", "l", " ", "g", "e", "n", "e", " ", "(",
      "2", ")">>

\* "2. cell. gene (3)": a question header, two key points
LineQuestion2 ==
    <<"2", ".", " ", "c", "e", "l", "l", ".", " ", "g", "e", "n", "e", " ",
      "(", "3", ")">>

\* "2. wall (4 marks)": a question header, marks spelled out
LineQuestionWord ==
    <<"2", ".", " ", "w", "a", "l", "l", " ", "(", "4", " ", "m", "a", "r",
      "k", "s", ")">>

\* "a) cell (3)": a sub-question header
LineSubA ==
    <<"a", ")", " ", "c", "e", "l", "l", " ", "(", "3", ")">>

\* "b) gene (2)": a sub-question header
LineSubB ==
    <<"b", ")", " ", "g", "e", "n", "e", " ", "(", "2", ")">>

\* "a) wall": a sub-question header without marks
LineSubAPlain ==
    <<"a", ")", " ", "w", "a", "l", "l">>

\* "a)": a sub-question header with nothing after it
LineSubBare ==
    <<"a", ")">>

\* "wall": a line that matches no pattern
LineText ==
    <<"w", "a", "l", "l">>

\* "(B) cell"
AnswerOptionB ==
    <<"(", "B", ")", " ", "c", "e", "l", "l">>

\* "c gene"
AnswerLowerC ==
    <<"c", " ", "g", "e", "n", "e">>

\* "a) cell\nb) gene"
AnswerParts ==
    <<"a", ")", " ", "c", "e", "l", "l", "\n", "b", ")", " ", "g", "e",
      "n", "e">>

\* "sun": no letter of A-D in it
AnswerNone ==
    <<"s", "u", "n">>

KeyLines == {LineMcqMarks, LineMcqPlain, LineQuestion1, LineQuestion2,
             LineQuestionWord, LineSubA, LineSubB, LineSubAPlain, LineSubBare,
             LineText}

\* the lines the keys of the evaluation runs are written with
EvalKeyLines == {LineMcqMarks, LineQuestion1, LineQuestion2, LineSubA, LineSubB}

AnswerTexts == {AnswerOptionB, AnswerLowerC, AnswerParts, AnswerNone}

QuestionIds == {<<"1">>, <<"2">>}

\* longest key text of the parser runs, in lines
MaxLines == 4
\* longest key text of the evaluation runs, in lines
MaxKeyLines == 3

\* all sequences over S of length at most n
RECURSIVE SeqsUpTo(_, _)
SeqsUpTo(S, n) ==
    IF n = 0 THEN {<<>>}
    ELSE LET shorter == SeqsUpTo(S, n - 1)
         IN  shorter \cup {Append(t, x) : t \in shorter, x \in S}

\* _parse_answer_key on a whole text: [raised, key]
ParseAnswerKey(lines) ==
    LET Return(ps) == [raised |-> ps.raised, key |-> FinishParse(ps)]
    IN  Return(ParseLines(ParserInit, lines))

\* the keys the evaluation runs grade against: every key the parser returns
\* for a text of at most MaxKeyLines lines
AnswerKeys ==
    {p.key : p \in {q \in {ParseAnswerKey(t) : t \in SeqsUpTo(EvalKeyLines, MaxKeyLines)} :
                        ~q.raised}}

-----------------------------------------------------------------------------
\* AnswerEvaluator._batch_evaluate_descriptive and evaluate_answers

\* Some fixed enumeration of a finite set (the iteration order of a dict)
RECURSIVE SetToSeq(_)
SetToSeq(S) ==
    IF S = {} THEN <<>>
    ELSE LET x == CHOOSE y \in S : TRUE
         IN  <<x>> \o SetToSeq(S \ {x})

RECURSIVE SumSeq(_)
SumSeq(ns) == IF ns = <<>> THEN 0 ELSE Head(ns) + SumSeq(Tail(ns))

\* sum(f.values())
Sum(f) ==
    LET ks == SetToSeq(DOMAIN f)
    IN  SumSeq([i \in DOMAIN ks |-> f[ks[i]]])

\* sum(x["marks"] for x in d.values())
SumMarks(d) == Sum([k \in DOMAIN d |-> d[k].marks])
\* sum(x["score"] for x in d.values())
SumScores(d) == Sum([k \in DOMAIN d |-> d[k].score])

\* lines 232-234 and 275-277: the id under which an item is graded
QId(q) ==
    IF q.type = "composite_sub" THEN q.q_num \o <<"_">> \o q.sub_letter
    ELSE q.q_num

\* the question's own marks whatever its type
UnattemptedMaxScoreFlat(q_data) == Tenths(q_data.marks)

\* line 62: max_score of a question that was not attempted
UnattemptedMaxScore(q_data) ==
    IF q_data.type # "composite" THEN Tenths(q_data.marks)
    ELSE Tenths(SumMarks(q_data.subquestions))

\* a stub that carries no marks
NotAttemptedNoMarks(q_data) ==
    [score |-> 0, max_score |-> 0,
     feedback |-> <<"Question not attempted">>, answer_text |-> <<>>]

\* lines 60-65
NotAttempted(q_data) ==
    [score |-> 0, max_score |-> UnattemptedMaxScore(q_data),
     feedback |-> <<"Question not attempted">>, answer_text |-> <<>>]

\* lines 73-78
McqResult(student_answer, q_data) ==
    LET Result(r) ==
            [score |-> r.score, max_score |-> Tenths(q_data.marks),
             feedback |-> r.feedback, answer_text |-> student_answer]
    IN  Result(EvaluateMcq(student_answer, q_data))

\* lines 81-86
DescriptiveItem(q_num, student_answer, q_data) ==
    [q_num |-> q_num, sub_letter |-> None, type |-> "descriptive",
     student_answer |-> student_answer, answer_key_data |-> q_data,
     partial |-> FALSE]

\* only the sub-questions the student's text has a part for are sent
CompositeItemsFoundOnly(q_num, student_answer, q_data) ==
    LET Found(subquestion_answers, letters) ==
            [i \in DOMAIN letters |->
                [q_num |-> q_num, sub_letter |-> letters[i],
                 type |-> "composite_sub",
                 student_answer |-> subquestion_answers[letters[i]],
                 answer_key_data |-> q_data.subquestions[letters[i]],
                 partial |-> FALSE]]
        Parts(subquestion_answers) ==
            Found(subquestion_answers,
                  SetToSeq((DOMAIN q_data.subquestions)
                           \cap (DOMAIN subquestion_answers)))
    IN  Parts(ParseSubquestions(student_answer))

\* the same items with the partial flag never set
CompositeItemsNeverPartial(q_num, student_answer, q_data) ==
    LET letters == SetToSeq(DOMAIN q_data.subquestions)
        Parts(subquestion_answers) ==
            [i \in DOMAIN letters |->
                LET sub_letter == letters[i]
                    found == sub_letter \in DOMAIN subquestion_answers
                IN  [q_num |-> q_num, sub_letter |-> sub_letter,
                     type |-> "composite_sub",
                     student_answer |->
                        IF found THEN subquestion_answers[sub_letter]
                        ELSE student_answer,
                     answer_key_data |-> q_data.subquestions[sub_letter],
                     partial |-> FALSE]]
    IN  Parts(ParseSubquestions(student_answer))

\* lines 89-100: the items of one attempted composite question
CompositeItems(q_num, student_answer, q_data) ==
    LET letters == SetToSeq(DOMAIN q_data.subquestions)
        Parts(subquestion_answers) ==
            [i \in DOMAIN letters |->
                LET sub_letter == letters[i]
                    found == sub_letter \in DOMAIN subquestion_answers
                IN  [q_num |-> q_num, sub_letter |-> sub_letter,
                     type |-> "composite_sub",
                     student_answer |->
                        IF found THEN subquestion_answers[sub_letter]
                        ELSE student_answer,
                     answer_key_data |-> q_data.subquestions[sub_letter],
                     partial |-> ~found]]
    IN  Parts(ParseSubquestions(student_answer))

\* every attempted question that is not composite is sent, MCQ included
RECURSIVE CollectItemsMcqToo(_, _, _)
CollectItemsMcqToo(q_nums, answers, key) ==
    IF q_nums = <<>> THEN <<>>
    ELSE
    LET q_num == Head(q_nums)
        q_data == key.questions[q_num]
        mine == IF q_num \notin DOMAIN answers THEN <<>>
                ELSE IF q_data.type = "composite"
                THEN CompositeItems(q_num, answers[q_num], q_data)
                ELSE <<DescriptiveItem(q_num, answers[q_num], q_data)>>
    IN  mine \o CollectItemsMcqToo(Tail(q_nums), answers, key)

\* lines 57-100, the part that fills descriptive_questions
RECURSIVE CollectItems(_, _, _)
CollectItems(q_nums, answers, key) ==
    IF q_nums = <<>> THEN <<>>
    ELSE
    LET q_num == Head(q_nums)
        q_data == key.questions[q_num]
        mine == IF q_num \notin DOMAIN answers THEN <<>>
                ELSE IF q_data.type = "descriptive"
                THEN <<DescriptiveItem(q_num, answers[q_num], q_data)>>
                ELSE IF q_data.type = "composite"
                THEN CompositeItems(q_num, answers[q_num], q_data)
                ELSE <<>>
    IN  mine \o CollectItems(Tail(q_nums), answers, key)

\* The grading collaborator's reply.  kind: "raises" (generate_content or
\* response.text raises), "no_json" (no brace-delimited object in the text),
\* "bad_json" (json.loads raises), "mapping" (json.loads returns a dict).
\* An entry of the mapping has a shape: "ok", "no_score" (no "score" key),
\* "bad_score" (float() rejects it), "no_feedback" (no "feedback" key),
\* "not_dict" (the entry is not a mapping).

\* lines 238-243 for one item: the exception it raises, or "none"
ItemException(q, evaluation) ==
    IF QId(q) \notin DOMAIN evaluation THEN "none"
    ELSE LET shape == evaluation[QId(q)].shape
         IN  CASE shape = "not_dict" -> "TypeError"
               [] shape = "no_score" -> "KeyError"
               [] shape = "bad_score" -> "ValueError"
               [] shape = "no_feedback" -> "KeyError"
               [] OTHER -> "none"

\* as BatchException, but a malformed entry raises nothing: its item alone is
\* affected
BatchExceptionCallOnly(questions, resp) ==
    IF resp.kind = "raises" THEN "Exception"
    ELSE IF resp.kind = "bad_json" THEN "JSONDecodeError"
    ELSE "none"

\* the exception of the try body of lines 220-254, or "none"
BatchException(questions, resp) ==
    IF resp.kind = "raises" THEN "Exception"
    ELSE IF resp.kind = "bad_json" THEN "JSONDecodeError"
    ELSE IF resp.kind = "no_json" THEN "none"
    ELSE LET bad == {i \in DOMAIN questions :
                        ItemException(questions[i], resp.evaluation) # "none"}
         IN  IF bad = {} THEN "none"
             ELSE ItemException(
                      questions[CHOOSE i \in bad : \A j \in bad : i <= j],
                      resp.evaluation)

\* an outer handler as narrow as the inner one
OuterCatchesParseErrors(e) == e \in {"JSONDecodeError", "KeyError"}

\* line 256: except (json.JSONDecodeError, KeyError)
InnerCatches(e) == e \in {"JSONDecodeError", "KeyError"}
\* line 264: except Exception
OuterCatches(e) == TRUE

\* max() where min() was meant
ClampScoreMax(score, max_score) == IF score > max_score THEN score ELSE max_score

\* line 239: min(float(score), max_score)
ClampScore(score, max_score) == IF score < max_score THEN score ELSE max_score

\* lines 236-252 for one item
ItemResult(q, evaluation) ==
    LET max_score == Tenths(q.answer_key_data.marks)
    IN  IF QId(q) \in DOMAIN evaluation
        THEN [score |-> ClampScore(evaluation[QId(q)].score, max_score),
              max_score |-> max_score,
              feedback |-> evaluation[QId(q)].feedback,
              answer_text |-> q.student_answer]
        ELSE EstimateScoreWithResult(q.student_answer, q.answer_key_data,
                                     max_score)

\* _fallback_individual_evaluation
FallbackIndividualEvaluation(questions) ==
    LET ids == {QId(questions[i]) : i \in DOMAIN questions}
    IN  [id \in ids |->
            LET q == questions[CHOOSE i \in DOMAIN questions :
                                  /\ QId(questions[i]) = id
                                  /\ \A j \in DOMAIN questions :
                                        QId(questions[j]) = id => j <= i]
            IN  EstimateScoreWithResult(q.student_answer, q.answer_key_data,
                                        Tenths(q.answer_key_data.marks))]

\* as ResultsFromMapping, but an item the mapping has no entry for is left
\* out instead of scored by the heuristic scorer
ResultsFromMappingPresentOnly(questions, evaluation) ==
    LET ids == {QId(questions[i]) : i \in DOMAIN questions}
    IN  [id \in ids \cap DOMAIN evaluation |->
            LET q == questions[CHOOSE i \in DOMAIN questions :
                                  /\ QId(questions[i]) = id
                                  /\ \A j \in DOMAIN questions :
                                        QId(questions[j]) = id => j <= i]
            IN  ItemResult(q, evaluation)]

\* lines 230-254: the results built from a parsed mapping
ResultsFromMapping(questions, evaluation) ==
    LET ids == {QId(questions[i]) : i \in DOMAIN questions}
    IN  [id \in ids |->
            LET q == questions[CHOOSE i \in DOMAIN questions :
                                  /\ QId(questions[i]) = id
                                  /\ \A j \in DOMAIN questions :
                                        QId(questions[j]) = id => j <= i]
            IN  ItemResult(q, evaluation)]

\* _batch_evaluate_descriptive from the reply on (lines 223-266):
\* [results, outcome, scored_by, propagated]
BatchEvaluateDescriptive(questions, resp) ==
    LET ids == {QId(questions[i]) : i \in DOMAIN questions}
        Handle(e) ==
            IF e # "none"
               /\ ~(resp.kind \in {"bad_json", "mapping"} /\ InnerCatches(e))
               /\ ~OuterCatches(e)
            THEN [results |-> EmptyDict, outcome |-> "PROPAGATED",
                  scored_by |-> EmptyDict, propagated |-> TRUE]
            ELSE IF e # "none" \/ resp.kind = "no_json"
            THEN [results |-> FallbackIndividualEvaluation(questions),
                  outcome |-> "BULK_FALLBACK",
                  scored_by |-> [id \in ids |-> "heuristic"],
                  propagated |-> FALSE]
            ELSE [results |-> ResultsFromMapping(questions, resp.evaluation),
                  outcome |-> IF ids \subseteq DOMAIN resp.evaluation
                              THEN "SUCCESS" ELSE "ITEM_FALLBACK",
                  scored_by |-> [id \in ids |->
                                    IF id \in DOMAIN resp.evaluation
                                    THEN "collaborator" ELSE "heuristic"],
                  propagated |-> FALSE]
    IN  Handle(BatchException(questions, resp))

-----------------------------------------------------------------------------
\* The key parser as a state machine: one step per line of the key text.

ParserState ==
    [result |-> result, current_question |-> current_question,
     current_subquestion |-> current_subquestion,
     answer_text_buffer |-> answer_text_buffer, raised |-> ppc = "raised"]

EvalIdle ==
    /\ pc = "idle"
    /\ student_answers = EmptyDict
    /\ results = [questions |-> EmptyDict,
                  summary |-> [total_score |-> 0, total_possible |-> 0,
                               percentage |-> 0]]
    /\ mcq_results = EmptyDict
    /\ descriptive_questions = <<>>
    /\ response = [kind |-> "none", evaluation |-> EmptyDict]
    /\ outcome = "none"
    /\ scored_by = EmptyDict
    /\ calls = 0

\* no extract_answers call is in progress
FileIdle ==
    /\ file_path = <<>>
    /\ file_exists = FALSE
    /\ pages = <<>>
    /\ xpc = "idle"
    /\ opened = FALSE
    /\ structured_answers = None

\* no extract_answers_from_ocr call is in progress
OcrIdle ==
    /\ ocr_lines = <<>>
    /\ opc = "idle"
    /\ ocr_answers = EmptyDict
    /\ ocr_question = None
    /\ current_answer_lines = <<>>

\* no separate _estimate_score call is in progress
EstIdle ==
    /\ est_answer = <<>>
    /\ est_key_data = None
    /\ est_max_score = 0
    /\ est_out = None
    /\ epc = "idle"

\* no process_answer_sheets call is in progress
SheetsIdle ==
    /\ answer_sheets = 0
    /\ sheet_fates = <<>>
    /\ all_results = <<>>
    /\ consolidated = None
    /\ shpc = "idle"

\* no recognize_handwriting call is in progress
PollIdle ==
    /\ polls = 0
    /\ poll_result = None
    /\ extracted_text = None
    /\ plpc = "idle"

\* no answer sheet has been evaluated yet in this run
SeqIdle == earlier_sheet = FALSE

\* no separate _parse_subquestions call is in progress
SubIdle ==
    /\ sub_text = <<>>
    /\ spc = "idle"
    /\ sub_parts = None

\* lines 58-73
ParseInit ==
    /\ key_lines = <<>>
    /\ ppc = "parsing"
    /\ result = ParserInit.result
    /\ current_question = None
    /\ current_subquestion = None
    /\ answer_text_buffer = <<>>
    /\ last_line = None
    /\ earlier_parse = FALSE
    /\ answer_key = [questions |-> EmptyDict,
                     metadata |-> [total_questions |-> 0, total_marks |-> 0]]
    /\ EvalIdle
    /\ FileIdle
    /\ OcrIdle
    /\ SubIdle
    /\ EstIdle
    /\ SheetsIdle
    /\ PollIdle
    /\ SeqIdle

\* one iteration of the loop of lines 82-177, on the next line of the text
ReadLine(line) ==
    /\ ppc = "parsing"
    /\ Len(key_lines) < MaxLines
    /\ LET Store(ps) ==
               /\ result' = ps.result
               /\ current_question' = ps.current_question
               /\ current_subquestion' = ps.current_subquestion
               /\ answer_text_buffer' = ps.answer_text_buffer
               /\ ppc' = IF ps.raised THEN "raised" ELSE "parsing"
       IN  Store(ParseLine(ParserState, line))
    /\ key_lines' = Append(key_lines, line)
    /\ last_line' = line
    /\ UNCHANGED earlier_parse
    /\ UNCHANGED evalVars
    /\ UNCHANGED fileVars
    /\ UNCHANGED subVars
    /\ UNCHANGED ocrVars
    /\ UNCHANGED estVars
    /\ UNCHANGED sheetVars
    /\ UNCHANGED pollVars
    /\ UNCHANGED seqVars

\* lines 179-189: the text has ended
EndOfText ==
    /\ ppc = "parsing"
    /\ result' = FinishParse(ParserState)
    /\ ppc' = "done"
    /\ UNCHANGED <<key_lines, current_question, current_subquestion,
                   answer_text_buffer, last_line, earlier_parse>>
    /\ UNCHANGED evalVars
    /\ UNCHANGED fileVars
    /\ UNCHANGED subVars
    /\ UNCHANGED ocrVars
    /\ UNCHANGED estVars
    /\ UNCHANGED sheetVars
    /\ UNCHANGED pollVars
    /\ UNCHANGED seqVars

\* the document of the earlier call is carried into the next one
KeptResult(previous) == previous

\* lines 59-65: result is a new dict, whatever an earlier call has returned
FreshResult(previous) == ParserInit.result

\* lines 48-73: _parse_answer_key is called again, on this or on another
\* AnswerKeyExtractor, after an earlier call has returned or raised
ParseAgain ==
    /\ ppc \in {"done", "raised"}
    /\ ppc' = "parsing"
    /\ key_lines' = <<>>
    /\ result' = FreshResult(result)
    /\ current_question' = None
    /\ current_subquestion' = None
    /\ answer_text_buffer' = <<>>
    /\ last_line' = None
    /\ earlier_parse' = TRUE
    /\ UNCHANGED evalVars
    /\ UNCHANGED fileVars
    /\ UNCHANGED subVars
    /\ UNCHANGED ocrVars
    /\ UNCHANGED estVars
    /\ UNCHANGED sheetVars
    /\ UNCHANGED pollVars
    /\ UNCHANGED seqVars

ParseNext ==
    \/ \E line \in KeyLines : ReadLine(line)
    \/ EndOfText
    \/ ParseAgain

ParseSpec == ParseInit /\ [][ParseNext]_vars

-----------------------------------------------------------------------------
\* AnswerKeyExtractor.extract_answers: the checks on the file, then the text
\* of its pages, then _parse_answer_key.

\* "k.txt"
PathTxt ==
    <<"k", ".", "t", "x", "t">>

FilePaths ==
    {
     \* "k.pdf"
     <<"k", ".", "p", "d", "f">>,
     \* "k.PDF": the extension in capitals
     <<"k", ".", "P", "D", "F">>,
     PathTxt,
     \* "k": no extension
     <<"k">>,
     \* ".pdf": a name that is all extension, which splitext takes as a name
     <<".", "p", "d", "f">>,
     \* "d.pdf/k": the dot is in the directory
     <<"d", ".", "p", "d", "f", "/", "k">>,
     \* "k.pdf.txt"
     <<"k", ".", "p", "d", "f", ".", "t", "x", "t">>
    }

PageTexts ==
    {
     \* a page with a question, a padded continuation line and a final newline
     <<"1", ".", " ", "c", "e", "l", "l", " ", "g", "e", "n", "e", " ", "(",
       "2", ")", "\n", " ", "w", "a", "l", "l", " ", "\n">>,
     \* a page with a blank line and a sub-question
     <<"\n", "a", ")", " ", "c", "e", "l", "l", " ", "(", "3", ")", "\n">>,
     \* a page with a bare sub-question marker
     <<"a", ")">>
    }

\* most pages of a key file
MaxPages == 2

\* the greatest member of a non-empty set of positions
Rightmost(hits) == CHOOSE h \in hits : \A j \in hits : j <= h

\* p.rfind(ch), 1-based, 0 when ch does not occur
RFind(p, ch) ==
    LET At(hits) == IF hits = {} THEN 0 ELSE Rightmost(hits)
    IN  At({i \in DOMAIN p : p[i] = ch})

\* os.path.splitext(p)[1]: from the last dot of the last component on,
\* unless only dots come before it in that component
SplitExt(p) ==
    LET Ext(sepIndex, dotIndex) ==
            IF dotIndex > sepIndex
               /\ \E i \in (sepIndex + 1)..(dotIndex - 1) : p[i] # "."
            THEN SubSeq(p, dotIndex, Len(p))
            ELSE <<>>
    IN  Ext(RFind(p, "/"), RFind(p, "."))

DotPdf == <<".", "p", "d", "f">>

\* the extension compared as it is written
ExtensionIsPdfExact(ext) == ext = DotPdf

\* line 32: ext.lower() != '.pdf' fails
ExtensionIsPdf(ext) == Lower(ext) = DotPdf

\* lines 37-41: the text of all pages
RECURSIVE Concat(_)
Concat(texts) ==
    IF texts = <<>> THEN <<>> ELSE Head(texts) \o Concat(Tail(texts))

\* lines 68-69: the trimmed non-blank lines of the text
LinesOf(text) == NonEmpty(StripEach(Split(text, "\n")))

\* extract_answers, lines 26-46
ExtractAnswers ==
    /\ xpc = "start"
    /\ IF ~file_exists
       THEN /\ xpc' = "FileNotFoundError"
            /\ UNCHANGED <<opened, structured_answers>>
       ELSE IF ~ExtensionIsPdf(SplitExt(file_path))
       THEN /\ xpc' = "ValueError"
            /\ UNCHANGED <<opened, structured_answers>>
       ELSE /\ opened' = TRUE
            /\ LET Return(p) ==
                       IF p.raised
                       THEN /\ xpc' = "AttributeError"
                            /\ UNCHANGED structured_answers
                       ELSE /\ xpc' = "returned"
                            /\ structured_answers' = p.key
               IN  Return(ParseAnswerKey(LinesOf(Concat(pages))))
    /\ UNCHANGED <<file_path, file_exists, pages>>
    /\ UNCHANGED parserVars
    /\ UNCHANGED evalVars
    /\ UNCHANGED ocrVars
    /\ UNCHANGED subVars
    /\ UNCHANGED estVars
    /\ UNCHANGED sheetVars
    /\ UNCHANGED pollVars
    /\ UNCHANGED seqVars

\* an AnswerKeyExtractor has been made for a path (lines 16-17); the file
\* may exist or not, and has pages when it exists
ExtractInit ==
    /\ file_path \in FilePaths
    /\ file_exists \in BOOLEAN
    /\ pages \in SeqsUpTo(PageTexts, MaxPages)
    /\ ~file_exists => pages = <<>>
    /\ xpc = "start"
    /\ opened = FALSE
    /\ structured_answers = None
    /\ key_lines = <<>>
    /\ ppc = "parsing"
    /\ result = ParserInit.result
    /\ current_question = None
    /\ current_subquestion = None
    /\ answer_text_buffer = <<>>
    /\ last_line = None
    /\ earlier_parse = FALSE
    /\ answer_key = [questions |-> EmptyDict,
                     metadata |-> [total_questions |-> 0, total_marks |-> 0]]
    /\ EvalIdle
    /\ OcrIdle
    /\ SubIdle
    /\ EstIdle
    /\ SheetsIdle
    /\ PollIdle
    /\ SeqIdle

ExtractSpec == ExtractInit /\ [][ExtractAnswers]_vars

-----------------------------------------------------------------------------
\* AnswerSheetProcessor.extract_answers_from_ocr (main.py)

\* "Question 2": a header
OcrHeaderQuestion ==
    <<"Q", "u", "e", "s", "t", "i", "o", "n", " ", "2">>

\* "1. cell": text after the number: no header
OcrNumberedText ==
    <<"1", ".", " ", "c", "e", "l", "l">>

\* " wall ": an answer line with blanks around it
OcrPaddedText ==
    <<" ", "w", "a", "l", "l", " ">>

\* "cell": an answer line
OcrText ==
    <<"c", "e", "l", "l">>

OcrLines ==
    {
     \* "1.": a header
     <<"1", ".">>,
     OcrHeaderQuestion,
     \* " 2) ": a header with blanks around it
     <<" ", "2", ")", " ">>,
     \* "1": a number alone: a header
     <<"1">>,
     OcrNumberedText,
     \* "question 1": no header
     <<"q", "u", "e", "s", "t", "i", "o", "n", " ", "1">>,
     OcrPaddedText,
     OcrText,
     \* "  ": a blank line
     <<" ", " ">>
    }

\* longest OCR text, in lines
MaxOcrLines == 4

QuestionWord == <<"Q", "u", "e", "s", "t", "i", "o", "n">>

\* the same search without the \s*$ that ends the pattern
question_match_prefix(line) ==
    LET Number(b, n) ==
            IF n >= 1
            THEN [ok |-> TRUE, g1 |-> SubSeq(line, b, b + n - 1)]
            ELSE NoMatch
        AfterWord(b) == Number(b, RunStartingAt(line, b, DigitChars))
        AfterBlanks(w, k) == AfterWord(w + k)
    IN  IF Len(line) >= 8 /\ SubSeq(line, 1, 8) = QuestionWord
        THEN AfterBlanks(9, RunStartingAt(line, 9, SpaceChars))
        ELSE AfterWord(1)

\* re.search(r'^(?:Question\s*)?(\d+)[\.\)]?\s*$', line)
question_match(line) ==
    LET \* t: where the \s*$ must match
        AtEnd(b, n, t) ==
            IF \A i \in t..Len(line) : IsSpace(line[i])
            THEN [ok |-> TRUE, g1 |-> SubSeq(line, b, b + n - 1)]
            ELSE NoMatch
        \* b: where the number starts, n: its length
        Number(b, n) ==
            IF n = 0 THEN NoMatch
            ELSE IF b + n <= Len(line) /\ line[b + n] \in {".", ")"}
            THEN AtEnd(b, n, b + n + 1)
            ELSE AtEnd(b, n, b + n)
        AfterWord(b) == Number(b, RunStartingAt(line, b, DigitChars))
        AfterBlanks(w, k) == AfterWord(w + k)
    IN  IF Len(line) >= 8 /\ SubSeq(line, 1, 8) = QuestionWord
        THEN AfterBlanks(9, RunStartingAt(line, 9, SpaceChars))
        ELSE AfterWord(1)

\* as SaveAnswer, but an answer is stored for the question in progress also
\* when no line was collected for it
SaveAnswerAlways(stored, question, answer_lines) ==
    IF Truthy(question)
    THEN Put(stored, question, Strip(Join(answer_lines, NL)))
    ELSE stored

\* lines 229-230 and 240-241: the lines collected for the question in
\* progress are stored as its answer
SaveAnswer(stored, question, answer_lines) ==
    IF Truthy(question) /\ answer_lines # <<>>
    THEN Put(stored, question, Strip(Join(answer_lines, NL)))
    ELSE stored

\* one iteration of the loop of lines 219-237, on the next line of the text
OcrReadLine(raw) ==
    /\ opc = "reading"
    /\ Len(ocr_lines) < MaxOcrLines
    /\ ocr_lines' = Append(ocr_lines, raw)
    /\ LET Handle(line, m) ==
               IF line = <<>>
               THEN UNCHANGED <<ocr_answers, ocr_question, current_answer_lines>>
               ELSE IF m.ok
               THEN /\ ocr_answers' = SaveAnswer(ocr_answers, ocr_question,
                                                 current_answer_lines)
                    /\ ocr_question' = m.g1
                    /\ current_answer_lines' = <<>>
               ELSE IF Truthy(ocr_question)
               THEN /\ current_answer_lines' = Append(current_answer_lines, line)
                    /\ UNCHANGED <<ocr_answers, ocr_question>>
               ELSE UNCHANGED <<ocr_answers, ocr_question, current_answer_lines>>
           Stripped(line) == Handle(line, question_match(line))
       IN  Stripped(Strip(raw))
    /\ UNCHANGED opc
    /\ UNCHANGED parserVars
    /\ UNCHANGED fileVars
    /\ UNCHANGED subVars
    /\ UNCHANGED evalVars
    /\ UNCHANGED estVars
    /\ UNCHANGED sheetVars
    /\ UNCHANGED pollVars
    /\ UNCHANGED seqVars

\* lines 239-247: the text has ended
OcrReturn ==
    /\ opc = "reading"
    /\ ocr_answers' = SaveAnswer(ocr_answers, ocr_question, current_answer_lines)
    /\ opc' = "returned"
    /\ UNCHANGED <<ocr_lines, ocr_question, current_answer_lines>>
    /\ UNCHANGED parserVars
    /\ UNCHANGED fileVars
    /\ UNCHANGED subVars
    /\ UNCHANGED evalVars
    /\ UNCHANGED estVars
    /\ UNCHANGED sheetVars
    /\ UNCHANGED pollVars
    /\ UNCHANGED seqVars

\* lines 212-217
OcrInit ==
    /\ ocr_lines = <<>>
    /\ opc = "reading"
    /\ ocr_answers = EmptyDict
    /\ ocr_question = None
    /\ current_answer_lines = <<>>
    /\ key_lines = <<>>
    /\ ppc = "parsing"
    /\ result = ParserInit.result
    /\ current_question = None
    /\ current_subquestion = None
    /\ answer_text_buffer = <<>>
    /\ last_line = None
    /\ earlier_parse = FALSE
    /\ answer_key = [questions |-> EmptyDict,
                     metadata |-> [total_questions |-> 0, total_marks |-> 0]]
    /\ EvalIdle
    /\ FileIdle
    /\ SubIdle
    /\ EstIdle
    /\ SheetsIdle
    /\ PollIdle
    /\ SeqIdle

OcrNext ==
    \/ \E raw \in OcrLines : OcrReadLine(raw)
    \/ OcrReturn

OcrSpec == OcrInit /\ [][OcrNext]_vars

-----------------------------------------------------------------------------
\* AnswerEvaluator._parse_subquestions on its own

\* "a) answer one\nb) answer two"
PartsExample ==
    <<"a", ")", " ", "a", "n", "s", "w", "e", "r", " ", "o", "n", "e",
      "\n", "b", ")", " ", "a", "n", "s", "w", "e", "r", " ", "t", "w", "o">>

PartLines ==
    {
     \* "a) cell": a part marked with a bracket
     <<"a", ")", " ", "c", "e", "l", "l">>,
     \* "b. gene": a part marked with a dot
     <<"b", ".", " ", "g", "e", "n", "e">>,
     \* "(c) wall": a part marked with brackets around the letter
     <<"(", "c", ")", " ", "w", "a", "l", "l">>,
     \* "a wall": a letter, a blank, a word
     <<"a", " ", "w", "a", "l", "l">>,
     \* " cell ": a word with blanks around it
     <<" ", "c", "e", "l", "l", " ">>,
     \* "B) sun": a capital letter and a bracket
     <<"B", ")", " ", "s", "u", "n">>,
     \* "a": a letter alone
     <<"a">>
    }

\* longest answer text given to _parse_subquestions, in lines
MaxPartLines == 3

\* the answer texts: up to MaxPartLines lines, and the two-line example
PartTexts ==
    {Join(t, NL) : t \in SeqsUpTo(PartLines, MaxPartLines)} \cup {PartsExample}

\* _parse_subquestions is called and returns
ParseSubs ==
    /\ spc = "start"
    /\ sub_parts' = ParseSubquestions(sub_text)
    /\ spc' = "returned"
    /\ UNCHANGED sub_text
    /\ UNCHANGED parserVars
    /\ UNCHANGED fileVars
    /\ UNCHANGED ocrVars
    /\ UNCHANGED evalVars
    /\ UNCHANGED estVars
    /\ UNCHANGED sheetVars
    /\ UNCHANGED pollVars
    /\ UNCHANGED seqVars

\* the call of _parse_subquestions with some answer text
SubInit ==
    /\ sub_text \in PartTexts
    /\ spc = "start"
    /\ sub_parts = None
    /\ key_lines = <<>>
    /\ ppc = "parsing"
    /\ result = ParserInit.result
    /\ current_question = None
    /\ current_subquestion = None
    /\ answer_text_buffer = <<>>
    /\ last_line = None
    /\ earlier_parse = FALSE
    /\ answer_key = [questions |-> EmptyDict,
                     metadata |-> [total_questions |-> 0, total_marks |-> 0]]
    /\ EvalIdle
    /\ FileIdle
    /\ OcrIdle
    /\ EstIdle
    /\ SheetsIdle
    /\ PollIdle
    /\ SeqIdle

SubSpec == SubInit /\ [][ParseSubs]_vars

-----------------------------------------------------------------------------
\* AnswerEvaluator._estimate_score on its own

EstAnswers ==
    {
     \* "genes": "gene" only inside a longer word
     <<"g", "e", "n", "e", "s">>,
     \* "Gene": a capital letter
     <<"G", "e", "n", "e">>,
     \* "cell wall"
     <<"c", "e", "l", "l", " ", "w", "a", "l", "l">>,
     \* "cell"
     <<"c", "e", "l", "l">>,
     \* "the gene wall"
     <<"t", "h", "e", " ", "g", "e", "n", "e", " ", "w", "a", "l", "l">>,
     \* "sun"
     <<"s", "u", "n">>
    }

\* the key_points lists
EstKeyPoints ==
    {
     \* "gene": one significant word
     <<<<"g", "e", "n", "e">>>>,
     \* "Cell wall": two significant words, one with a capital
     <<<<"C", "e", "l", "l", " ", "w", "a", "l", "l">>>>,
     \* "cell gene wall": three significant words
     <<<<"c", "e", "l", "l", " ", "g", "e", "n", "e", " ", "w", "a", "l", "l">>>>,
     \* "cell gene", "wall": two key points
     <<<<"c", "e", "l", "l", " ", "g", "e", "n", "e">>, <<"w", "a", "l", "l">>>>,
     \* "a sun": no significant word
     <<<<"a", " ", "s", "u", "n">>>>
    }

\* the answer_key_data: key points given, key points to be taken from the
\* answer_text "gene. cell", and neither
EstKeyData ==
    {[SubEntry(2, <<>>) EXCEPT !.key_points = kp] : kp \in EstKeyPoints}
    \cup {[SubEntry(2, <<>>) EXCEPT
               !.has_answer_text = TRUE,
               !.answer_text = <<"g", "e", "n", "e", ".", " ", "c", "e", "l", "l">>],
          SubEntry(2, <<>>)}

\* the max_score values, in tenths
EstMaxScores == {20, 30}

\* _estimate_score is called and returns
EstimateCall ==
    /\ epc = "start"
    /\ est_out' = EstimateScore(est_answer, est_key_data, est_max_score)
    /\ epc' = "returned"
    /\ UNCHANGED <<est_answer, est_key_data, est_max_score>>
    /\ UNCHANGED parserVars
    /\ UNCHANGED fileVars
    /\ UNCHANGED ocrVars
    /\ UNCHANGED subVars
    /\ UNCHANGED evalVars
    /\ UNCHANGED sheetVars
    /\ UNCHANGED pollVars
    /\ UNCHANGED seqVars

\* the call of _estimate_score with some answer, key data and max_score
EstInit ==
    /\ est_answer \in EstAnswers
    /\ est_key_data \in EstKeyData
    /\ est_max_score \in EstMaxScores
    /\ est_out = None
    /\ epc = "start"
    /\ key_lines = <<>>
    /\ ppc = "parsing"
    /\ result = ParserInit.result
    /\ current_question = None
    /\ current_subquestion = None
    /\ answer_text_buffer = <<>>
    /\ last_line = None
    /\ earlier_parse = FALSE
    /\ answer_key = [questions |-> EmptyDict,
                     metadata |-> [total_questions |-> 0, total_marks |-> 0]]
    /\ EvalIdle
    /\ FileIdle
    /\ OcrIdle
    /\ SubIdle
    /\ SheetsIdle
    /\ PollIdle
    /\ SeqIdle

EstSpec == EstInit /\ [][EstimateCall]_vars

-----------------------------------------------------------------------------
\* AnswerSheetProcessor.process_answer_sheets: the loop over the sheets
\* (main.py).  What a sheet meets is drawn when the sheet is handled.

\* most sheets in the folder
MaxSheets == 3

\* the step of the loop body that raises for a sheet, "skipped" for a sheet
\* the body passes over (no OCR client, unsupported file type), "none" for
\* a sheet handled to the end
SheetFates == {"none", "skipped", "download", "ocr", "extraction",
               "evaluation", "writing", "upload"}

\* lines 114-196 for one sheet
ProcessSheet(fate) ==
    /\ shpc = "loop"
    /\ Len(sheet_fates) < answer_sheets
    /\ sheet_fates' = Append(sheet_fates, fate)
    /\ IF fate = "download"
       \* line 119 is in no try block: the exception leaves the loop
       THEN /\ shpc' = "raised"
            /\ UNCHANGED all_results
       \* lines 127-129, 152-160: continue
       ELSE IF fate \in {"skipped", "ocr", "extraction"}
       THEN UNCHANGED <<shpc, all_results>>
       \* line 165 raises, lines 192-196: continue
       ELSE IF fate = "evaluation"
       THEN UNCHANGED <<shpc, all_results>>
       \* line 169 has run; lines 172-188 may raise, lines 192-196: continue
       ELSE /\ all_results' = Append(all_results, Len(sheet_fates) + 1)
            /\ UNCHANGED shpc
    /\ UNCHANGED <<answer_sheets, consolidated>>
    /\ UNCHANGED parserVars
    /\ UNCHANGED fileVars
    /\ UNCHANGED ocrVars
    /\ UNCHANGED subVars
    /\ UNCHANGED estVars
    /\ UNCHANGED evalVars
    /\ UNCHANGED pollVars
    /\ UNCHANGED seqVars

\* lines 108-110 and 198-200: the list is empty or has been gone through
SheetsDone ==
    /\ shpc = "loop"
    /\ Len(sheet_fates) = answer_sheets
    /\ consolidated' = IF all_results # <<>> THEN all_results ELSE None
    /\ shpc' = "returned"
    /\ UNCHANGED <<answer_sheets, sheet_fates, all_results>>
    /\ UNCHANGED parserVars
    /\ UNCHANGED fileVars
    /\ UNCHANGED ocrVars
    /\ UNCHANGED subVars
    /\ UNCHANGED estVars
    /\ UNCHANGED evalVars
    /\ UNCHANGED pollVars
    /\ UNCHANGED seqVars

\* lines 106-113
SheetsInit ==
    /\ answer_sheets \in 0..MaxSheets
    /\ sheet_fates = <<>>
    /\ all_results = <<>>
    /\ consolidated = None
    /\ shpc = "loop"
    /\ key_lines = <<>>
    /\ ppc = "parsing"
    /\ result = ParserInit.result
    /\ current_question = None
    /\ current_subquestion = None
    /\ answer_text_buffer = <<>>
    /\ last_line = None
    /\ earlier_parse = FALSE
    /\ answer_key = [questions |-> EmptyDict,
                     metadata |-> [total_questions |-> 0, total_marks |-> 0]]
    /\ EvalIdle
    /\ FileIdle
    /\ OcrIdle
    /\ SubIdle
    /\ EstIdle
    /\ PollIdle
    /\ SeqIdle

SheetsNext ==
    \/ \E fate \in SheetFates : ProcessSheet(fate)
    \/ SheetsDone

SheetsSpec == SheetsInit /\ [][SheetsNext]_vars

-----------------------------------------------------------------------------
\* AzureOCR.recognize_handwriting: the polling loop and what follows it
\* (ocr.py)

\* line 38
max_polling_attempts == 60

\* what a poll can answer: a status or none, and no analyzeResult, one
\* without readResults, or one with a page of two lines
PollResponses ==
    {[has_status |-> hs, status |-> st, analyze |-> an,
      read_results |-> IF an = "read" THEN <<<<LineText, LineQuestion1>>>>
                       ELSE <<>>] :
        hs \in BOOLEAN, st \in {"running", "failed", "succeeded"},
        an \in {"absent", "empty", "read"}}

\* the loop goes on as if no poll had succeeded
SucceededNever(get_response) == FALSE

\* line 48
Succeeded(get_response) ==
    get_response.has_status /\ get_response.status = "succeeded"

\* lines 52-56
ExtractedText(get_response) ==
    IF get_response.analyze = "read"
    THEN Concat([i \in DOMAIN get_response.read_results |->
                    Concat([j \in DOMAIN get_response.read_results[i] |->
                               get_response.read_results[i][j] \o NL])])
    ELSE <<>>

\* lines 40-49: one poll
Poll(get_response) ==
    /\ plpc = "polling"
    /\ polls < max_polling_attempts
    /\ polls' = polls + 1
    /\ poll_result' = get_response
    /\ plpc' = IF Succeeded(get_response) \/ polls + 1 = max_polling_attempts
               THEN "polled" ELSE "polling"
    /\ UNCHANGED extracted_text
    /\ UNCHANGED parserVars
    /\ UNCHANGED fileVars
    /\ UNCHANGED ocrVars
    /\ UNCHANGED subVars
    /\ UNCHANGED estVars
    /\ UNCHANGED sheetVars
    /\ UNCHANGED evalVars
    /\ UNCHANGED seqVars

\* lines 51-58: the loop has ended
ReturnText ==
    /\ plpc = "polled"
    /\ extracted_text' = ExtractedText(poll_result)
    /\ plpc' = "returned"
    /\ UNCHANGED <<polls, poll_result>>
    /\ UNCHANGED parserVars
    /\ UNCHANGED fileVars
    /\ UNCHANGED ocrVars
    /\ UNCHANGED subVars
    /\ UNCHANGED estVars
    /\ UNCHANGED sheetVars
    /\ UNCHANGED evalVars
    /\ UNCHANGED seqVars

\* lines 36-38
PollInit ==
    /\ polls = 0
    /\ poll_result = None
    /\ extracted_text = None
    /\ plpc = "polling"
    /\ key_lines = <<>>
    /\ ppc = "parsing"
    /\ result = ParserInit.result
    /\ current_question = None
    /\ current_subquestion = None
    /\ answer_text_buffer = <<>>
    /\ last_line = None
    /\ earlier_parse = FALSE
    /\ answer_key = [questions |-> EmptyDict,
                     metadata |-> [total_questions |-> 0, total_marks |-> 0]]
    /\ EvalIdle
    /\ FileIdle
    /\ OcrIdle
    /\ SubIdle
    /\ EstIdle
    /\ SheetsIdle
    /\ SeqIdle

PollNext ==
    \/ \E get_response \in PollResponses : Poll(get_response)
    \/ ReturnText

\* every poll is answered, and the statements after the loop are executed
PollSpec == PollInit /\ [][PollNext]_vars /\ WF_vars(PollNext)

-----------------------------------------------------------------------------
\* evaluate_answers as a state machine: the part before the batched call,
\* the reply of the grading collaborator, and the next answer sheet.

\* as MergeOne, but a sub-question's score goes to its parent only, not to
\* the total
MergeOneParentOnly(res, answers, q_num, eval_result) ==
    IF Contains(q_num, <<"_">>)
    THEN LET parts == Split(q_num, "_")
             main_q == parts[1]
             sub_letter == parts[2]
             qs == IF main_q \notin DOMAIN res.questions
                   THEN Put(res.questions, main_q,
                            [score |-> 0, max_score |-> 0,
                             subquestions |-> EmptyDict,
                             answer_text |-> answers[main_q]])
                   ELSE res.questions
         IN  [questions |->
                [qs EXCEPT
                    ![main_q].subquestions =
                        Put(@, sub_letter,
                            [score |-> eval_result.score,
                             max_score |-> eval_result.max_score,
                             feedback |-> eval_result.feedback]),
                    ![main_q].score = @ + eval_result.score,
                    ![main_q].max_score = @ + eval_result.max_score],
              summary |-> res.summary]
    ELSE [questions |-> Put(res.questions, q_num, eval_result),
          summary |-> [res.summary EXCEPT
                          !.total_score = @ + eval_result.score]]

\* lines 107-129 for one entry of descriptive_results
MergeOne(res, answers, q_num, eval_result) ==
    IF Contains(q_num, <<"_">>)
    THEN LET parts == Split(q_num, "_")
             main_q == parts[1]
             sub_letter == parts[2]
             qs == IF main_q \notin DOMAIN res.questions
                   THEN Put(res.questions, main_q,
                            [score |-> 0, max_score |-> 0,
                             subquestions |-> EmptyDict,
                             answer_text |-> answers[main_q]])
                   ELSE res.questions
         IN  [questions |->
                [qs EXCEPT
                    ![main_q].subquestions =
                        Put(@, sub_letter,
                            [score |-> eval_result.score,
                             max_score |-> eval_result.max_score,
                             feedback |-> eval_result.feedback]),
                    ![main_q].score = @ + eval_result.score,
                    ![main_q].max_score = @ + eval_result.max_score],
              summary |-> [res.summary EXCEPT
                              !.total_score = @ + eval_result.score]]
    ELSE [questions |-> Put(res.questions, q_num, eval_result),
          summary |-> [res.summary EXCEPT
                          !.total_score = @ + eval_result.score]]

\* the loop of lines 107-129
RECURSIVE MergeAll(_, _, _, _)
MergeAll(res, answers, ids, descriptive_results) ==
    IF ids = <<>> THEN res
    ELSE MergeAll(MergeOne(res, answers, Head(ids),
                           descriptive_results[Head(ids)]),
                  answers, Tail(ids), descriptive_results)

\* lines 132-141: the MCQ results go in and the percentage is computed
\* (hundredths of a percent)
Finish(res, mcq) ==
    LET qs == [q \in (DOMAIN res.questions) \cup (DOMAIN mcq) |->
                  IF q \in DOMAIN mcq THEN mcq[q] ELSE res.questions[q]]
    IN  [questions |-> qs,
         summary |->
            IF res.summary.total_possible > 0
            THEN [res.summary EXCEPT
                    !.percentage = RoundHalfEven(res.summary.total_score * 10000,
                                                 res.summary.total_possible)]
            ELSE res.summary]

Submissions == UNION {[D -> AnswerTexts] : D \in SUBSET QuestionIds}

ReturnedScores == {-10, 5, 990}
CollaboratorFeedback == <<"Good.">>
Entries ==
    {[shape |-> "ok", score |-> s, feedback |-> CollaboratorFeedback] :
        s \in ReturnedScores}
    \cup {[shape |-> sh, score |-> 0, feedback |-> None] :
            sh \in {"no_score", "bad_score", "no_feedback", "not_dict"}}

\* what the collaborator may do with a request for the given items
Replies(questions) ==
    LET ids == {QId(questions[i]) : i \in DOMAIN questions}
    IN  {[kind |-> k, evaluation |-> EmptyDict] :
            k \in {"raises", "no_json", "bad_json"}}
        \cup {[kind |-> "mapping", evaluation |-> ev] :
                ev \in UNION {[D -> Entries] : D \in SUBSET ids}}

Init ==
    /\ key_lines = <<>>
    /\ ppc = "done"
    /\ answer_key \in AnswerKeys
    /\ result = answer_key
    /\ current_question = None
    /\ current_subquestion = None
    /\ answer_text_buffer = <<>>
    /\ last_line = None
    /\ earlier_parse = FALSE
    /\ EvalIdle
    /\ FileIdle
    /\ OcrIdle
    /\ SubIdle
    /\ EstIdle
    /\ SheetsIdle
    /\ PollIdle
    /\ SeqIdle

\* a key's total recomputed from its leaves instead of read from its metadata
TotalPossibleFromLeaves(key) ==
    Tenths(Sum([q \in DOMAIN key.questions |->
                   IF key.questions[q].type = "composite"
                   THEN SumMarks(key.questions[q].subquestions)
                   ELSE key.questions[q].marks]))

\* line 48: total_possible
TotalPossible(key) == Tenths(key.metadata.total_marks)

\* lines 44-100: the stubs of the questions not attempted, the MCQ results
\* and the items to send
FirstPass(key, answers) ==
    LET q_nums == SetToSeq(DOMAIN key.questions)
        missing == {q \in DOMAIN key.questions : q \notin DOMAIN answers}
        mcqs == {q \in DOMAIN key.questions :
                    q \in DOMAIN answers /\ key.questions[q].type = "mcq"}
        Pass(mcq) ==
            [results |->
                [questions |->
                    [q \in missing |-> NotAttempted(key.questions[q])],
                 summary |-> [total_score |-> SumScores(mcq),
                              total_possible |-> TotalPossible(key),
                              percentage |-> 0]],
             mcq_results |-> mcq,
             descriptive_questions |-> CollectItems(q_nums, answers, key)]
    IN  Pass([q \in mcqs |-> McqResult(answers[q], key.questions[q])])

\* lines 44-104: up to the batched call, or to the end when nothing is to be
\* sent
BeginEvaluate(answers) ==
    /\ pc = "idle"
    /\ LET Begin(first) ==
               /\ student_answers' = answers
               /\ mcq_results' = first.mcq_results
               /\ descriptive_questions' = first.descriptive_questions
               /\ IF first.descriptive_questions # <<>>
                  THEN /\ results' = first.results
                       /\ calls' = calls + 1
                       /\ pc' = "waiting"
                  ELSE /\ results' = Finish(first.results, first.mcq_results)
                       /\ calls' = calls
                       /\ pc' = "done"
       IN  Begin(FirstPass(answer_key, answers))
    /\ UNCHANGED <<answer_key, response, outcome, scored_by>>
    /\ UNCHANGED parserVars
    /\ UNCHANGED fileVars
    /\ UNCHANGED subVars
    /\ UNCHANGED ocrVars
    /\ UNCHANGED estVars
    /\ UNCHANGED sheetVars
    /\ UNCHANGED pollVars
    /\ UNCHANGED seqVars

\* lines 220-266 and 107-141: the collaborator has replied (or failed)
CollaboratorReplies(resp) ==
    /\ pc = "waiting"
    /\ LET Merge(b) ==
               /\ response' = resp
               /\ outcome' = b.outcome
               /\ scored_by' = b.scored_by
               /\ IF b.propagated
                  THEN /\ pc' = "raised"
                       /\ results' = results
                  ELSE /\ pc' = "done"
                       /\ results' = Finish(MergeAll(results, student_answers,
                                                     SetToSeq(DOMAIN b.results),
                                                     b.results),
                                            mcq_results)
       IN  Merge(BatchEvaluateDescriptive(descriptive_questions, resp))
    /\ UNCHANGED <<answer_key, student_answers, mcq_results,
                   descriptive_questions, calls>>
    /\ UNCHANGED parserVars
    /\ UNCHANGED fileVars
    /\ UNCHANGED subVars
    /\ UNCHANGED ocrVars
    /\ UNCHANGED estVars
    /\ UNCHANGED sheetVars
    /\ UNCHANGED pollVars
    /\ UNCHANGED seqVars

\* main.py lines 114, 162-165: the next answer sheet is graded against the
\* same key
NextSheet ==
    /\ pc \in {"done", "raised"}
    /\ pc' = "idle"
    /\ student_answers' = EmptyDict
    /\ results' = [questions |-> EmptyDict,
                   summary |-> [total_score |-> 0, total_possible |-> 0,
                                percentage |-> 0]]
    /\ mcq_results' = EmptyDict
    /\ descriptive_questions' = <<>>
    /\ response' = [kind |-> "none", evaluation |-> EmptyDict]
    /\ outcome' = "none"
    /\ scored_by' = EmptyDict
    /\ calls' = 0
    /\ UNCHANGED answer_key
    /\ UNCHANGED parserVars
    /\ UNCHANGED fileVars
    /\ UNCHANGED subVars
    /\ UNCHANGED ocrVars
    /\ UNCHANGED estVars
    /\ UNCHANGED sheetVars
    /\ UNCHANGED pollVars
    /\ UNCHANGED seqVars

Next ==
    \/ \E answers \in Submissions : BeginEvaluate(answers)
    \/ /\ pc = "waiting"
       /\ \E resp \in Replies(descriptive_questions) :
             CollaboratorReplies(resp)
    \/ NextSheet

Spec == Init /\ [][Next]_vars

\* ---- a run of process_answer_sheets: several sheets against one key ----

MaxSeqKeyLines == 2

\* the keys of at most MaxSeqKeyLines lines
SeqKeys ==
    {p.key : p \in {q \in {ParseAnswerKey(t) :
                             t \in SeqsUpTo(EvalKeyLines, MaxSeqKeyLines)} :
                        ~q.raised}}

SeqInit ==
    /\ Init
    /\ answer_key \in SeqKeys

\* as SheetGraded, but the call has written into the key it was given: the
\* total of the key's metadata is zeroed
SheetGradedKeyWritten ==
    /\ pc \in {"done", "raised"}
    /\ pc' = "idle"
    /\ earlier_sheet' = TRUE
    /\ student_answers' = EmptyDict
    /\ results' = [questions |-> EmptyDict,
                   summary |-> [total_score |-> 0, total_possible |-> 0,
                                percentage |-> 0]]
    /\ mcq_results' = EmptyDict
    /\ descriptive_questions' = <<>>
    /\ response' = [kind |-> "none", evaluation |-> EmptyDict]
    /\ outcome' = "none"
    /\ scored_by' = EmptyDict
    /\ calls' = 0
    /\ answer_key' = [answer_key EXCEPT !.metadata.total_marks = 0]
    /\ UNCHANGED parserVars
    /\ UNCHANGED fileVars
    /\ UNCHANGED subVars
    /\ UNCHANGED ocrVars
    /\ UNCHANGED estVars
    /\ UNCHANGED sheetVars
    /\ UNCHANGED pollVars

\* main.py lines 114 and 162-169, 192-196: the call for this sheet has
\* returned or raised, and the loop goes on to the next sheet with the same
\* evaluator and the same key object
SheetGraded ==
    /\ pc \in {"done", "raised"}
    /\ pc' = "idle"
    /\ earlier_sheet' = TRUE
    /\ student_answers' = EmptyDict
    /\ results' = [questions |-> EmptyDict,
                   summary |-> [total_score |-> 0, total_possible |-> 0,
                                percentage |-> 0]]
    /\ mcq_results' = EmptyDict
    /\ descriptive_questions' = <<>>
    /\ response' = [kind |-> "none", evaluation |-> EmptyDict]
    /\ outcome' = "none"
    /\ scored_by' = EmptyDict
    /\ calls' = 0
    /\ UNCHANGED answer_key
    /\ UNCHANGED parserVars
    /\ UNCHANGED fileVars
    /\ UNCHANGED subVars
    /\ UNCHANGED ocrVars
    /\ UNCHANGED estVars
    /\ UNCHANGED sheetVars
    /\ UNCHANGED pollVars

SeqNext ==
    \/ \E answers \in Submissions : BeginEvaluate(answers)
    \/ /\ pc = "waiting"
       /\ \E resp \in Replies(descriptive_questions) :
             CollaboratorReplies(resp)
    \/ SheetGraded

SeqSpec == SeqInit /\ [][SeqNext]_vars

\* ---- one sheet of process_answer_sheets: the answers extracted from its
\* ---- OCR text are evaluated (main.py lines 143 and 165)

\* the lines of the OCR texts of these runs
SheetLines ==
    {
     \* "1.": a header
     <<"1", ".">>,
     \* " 2) ": a header with blanks around it
     <<" ", "2", ")", " ">>,
     AnswerOptionB,
     OcrText,
     \* "  ": a blank line
     <<" ", " ">>
    }

\* the key of these runs: an MCQ and a descriptive question
SheetKey == ParseAnswerKey(<<LineMcqMarks, LineQuestion2>>).key

OneSheetInit ==
    /\ ocr_lines = <<>>
    /\ opc = "reading"
    /\ ocr_answers = EmptyDict
    /\ ocr_question = None
    /\ current_answer_lines = <<>>
    /\ key_lines = <<>>
    /\ ppc = "done"
    /\ answer_key = SheetKey
    /\ result = answer_key
    /\ current_question = None
    /\ current_subquestion = None
    /\ answer_text_buffer = <<>>
    /\ last_line = None
    /\ earlier_parse = FALSE
    /\ EvalIdle
    /\ FileIdle
    /\ SubIdle
    /\ EstIdle
    /\ SheetsIdle
    /\ PollIdle
    /\ SeqIdle

\* main.py lines 143 and 165: what extract_answers_from_ocr returned is
\* passed to evaluate_answers
EvaluateExtracted ==
    /\ opc = "returned"
    /\ BeginEvaluate(ocr_answers)

OneSheetNext ==
    \/ \E raw \in SheetLines : OcrReadLine(raw)
    \/ OcrReturn
    \/ EvaluateExtracted
    \/ /\ pc = "waiting"
       /\ \E resp \in Replies(descriptive_questions) :
             CollaboratorReplies(resp)

OneSheetSpec == OneSheetInit /\ [][OneSheetNext]_vars

-----------------------------------------------------------------------------
\* Properties of evaluate_answers (checked under Spec) and of
\* _parse_answer_key (checked under ParseSpec)

\* evaluate_answers has returned
Returned == pc = "done"

\* the key questions the submission has an answer for
Attempted == (DOMAIN answer_key.questions) \cap (DOMAIN student_answers)

\* a question's mark allocation, in marks: its sub-question marks summed when
\* it is composite, its own marks otherwise
AllocatedMarks(q_data) ==
    IF q_data.type = "composite"
    THEN SumMarks(q_data.subquestions)
    ELSE q_data.marks

\* the items of the batched request
Items == {descriptive_questions[i] : i \in DOMAIN descriptive_questions}

\* the leaf of the result that belongs to an item
Leaf(item) ==
    IF item.type = "composite_sub"
    THEN results.questions[item.q_num].subquestions[item.sub_letter]
    ELSE results.questions[item.q_num]

\* the leaf of an item is what the heuristic scorer gives for it
HeuristicLeaf(item) ==
    LET h == EstimateScoreWithResult(item.student_answer,
                                     item.answer_key_data,
                                     Tenths(item.answer_key_data.marks))
    IN  /\ scored_by[QId(item)] = "heuristic"
        /\ Leaf(item).score = h.score
        /\ Leaf(item).max_score = Tenths(item.answer_key_data.marks)
        /\ Leaf(item).feedback = h.feedback

ScoreInBounds(r) == 0 <= r.score /\ r.score <= r.max_score

\* C1: every leaf result and every rolled-up composite result returned by
\* evaluate_answers has 0 <= score <= max_score, whatever the collaborator
\* returned.  (Violated: a negative returned score is passed through.)
C1_ScoresWithinBounds ==
    Returned =>
        \A q \in DOMAIN results.questions :
            LET r == results.questions[q]
            IN  /\ ScoreInBounds(r)
                /\ "subquestions" \in DOMAIN r =>
                      \A l \in DOMAIN r.subquestions :
                          ScoreInBounds(r.subquestions[l])

\* the marks of the leaves of a parsed document
LeafMarksOf(questions) ==
    Sum([q \in DOMAIN questions |-> AllocatedMarks(questions[q])])

\* C2: when _parse_answer_key has finished, metadata.total_marks is the sum
\* of the marks of the leaves of the final document.  (Violated: a repeated
\* question number or sub-question letter is counted again.)
C2_TotalMarksIsLeafSum ==
    ppc = "done" => result.metadata.total_marks = LeafMarksOf(result.questions)

\* C3: the questions map of the result has exactly the key's question ids,
\* and each entry's max_score is the question's mark allocation, attempted or
\* not.
C3_ResultCoversKey ==
    Returned =>
        /\ DOMAIN results.questions = DOMAIN answer_key.questions
        /\ \A q \in DOMAIN answer_key.questions :
              results.questions[q].max_score
                  = Tenths(AllocatedMarks(answer_key.questions[q]))

\* C3 witness: a graded sheet with a composite question left out and another
\* question answered
C3_Witness ==
    /\ Returned
    /\ \E q \in DOMAIN answer_key.questions :
          /\ answer_key.questions[q].type = "composite"
          /\ q \notin DOMAIN student_answers
          /\ results.questions[q].max_score > 0
    /\ Attempted # {}

\* the batched call, or the handling of its reply, raised an exception
ReplyRaised ==
    \/ response.kind \in {"raises", "bad_json"}
    \/ /\ response.kind = "mapping"
       /\ \E item \in Items :
             /\ QId(item) \in DOMAIN response.evaluation
             /\ response.evaluation[QId(item)].shape # "ok"

\* C4: an exception of the batched call or of the handling of its reply is
\* never propagated: every submitted item is scored by the heuristic scorer
\* and evaluate_answers returns a complete result.
C4_ExceptionsAbsorbed ==
    /\ pc # "raised"
    /\ (pc \in {"done", "raised"} /\ ReplyRaised) =>
          /\ Returned
          /\ \A item \in Items : HeuristicLeaf(item)
          /\ DOMAIN results.questions = DOMAIN answer_key.questions

\* C4 witness: a reply whose processing raised ValueError after a valid entry
C4_Witness ==
    /\ Returned
    /\ response.kind = "mapping"
    /\ \E i, j \in Items :
          /\ QId(i) \in DOMAIN response.evaluation
          /\ QId(j) \in DOMAIN response.evaluation
          /\ response.evaluation[QId(i)].shape = "bad_score"
          /\ response.evaluation[QId(j)].shape = "ok"

\* the reply parsed to a mapping whose entries for the submitted items are
\* well formed
WellFormedMapping ==
    /\ response.kind = "mapping"
    /\ \A item \in Items :
          QId(item) \in DOMAIN response.evaluation =>
              response.evaluation[QId(item)].shape = "ok"

\* the smaller of two numbers
Min(a, b) == IF a <= b THEN a ELSE b

\* C5: with a well-formed mapping, exactly the items whose id is absent from
\* it are scored by the heuristic scorer; an item whose id is present gets
\* min(returned score, max_score), the key's marks as max_score and the
\* collaborator's feedback.
C5_MappingApplied ==
    (Returned /\ WellFormedMapping) =>
        \A item \in Items :
            IF QId(item) \in DOMAIN response.evaluation
            THEN LET e == response.evaluation[QId(item)]
                     max_score == Tenths(item.answer_key_data.marks)
                 IN  /\ scored_by[QId(item)] = "collaborator"
                     /\ Leaf(item).score = Min(e.score, max_score)
                     /\ Leaf(item).max_score = max_score
                     /\ Leaf(item).feedback = e.feedback
            ELSE HeuristicLeaf(item)

\* C5 witness: one item capped at its marks, another absent from the mapping
C5_Witness ==
    /\ Returned
    /\ WellFormedMapping
    /\ \E i, j \in Items :
          /\ QId(i) \in DOMAIN response.evaluation
          /\ response.evaluation[QId(i)].score > Tenths(i.answer_key_data.marks)
          /\ Leaf(i).score = Tenths(i.answer_key_data.marks)
          /\ QId(j) \notin DOMAIN response.evaluation

\* an attempted descriptive or composite question exists
HasGradable ==
    \E q \in Attempted :
        answer_key.questions[q].type \in {"descriptive", "composite"}

\* C6: in one run the collaborator is called once when an attempted
\* descriptive question or composite sub-question exists and never
\* otherwise, and the call is not repeated after a failure or an unusable
\* reply.
C6_SingleCall ==
    /\ pc = "idle" => calls = 0
    /\ pc = "waiting" => calls = 1 /\ HasGradable
    /\ pc \in {"done", "raised"} => calls = (IF HasGradable THEN 1 ELSE 0)

\* C6 witness: a call that failed and was not repeated
C6_Witness ==
    /\ Returned
    /\ response.kind = "raises"
    /\ outcome = "BULK_FALLBACK"
    /\ calls = 1

\* the first character of A-D or a-d in a text, upper-cased; None if none
FirstOption(text) ==
    LET at == {i \in DOMAIN text : text[i] \in OptionLetters}
    IN  IF at = {} THEN None
        ELSE <<UpperChar(text[CHOOSE i \in at : \A j \in at : i <= j])>>

\* C7: an attempted MCQ question gets full marks and "Correct answer." when
\* the first letter A-D/a-d of the text, upper-cased, is the key's option; 0
\* and a feedback naming both options when it is another; 0 and a feedback
\* saying no option was identified when there is none.
C7_McqScoring ==
    Returned =>
        \A q \in Attempted :
            answer_key.questions[q].type = "mcq" =>
                LET q_data == answer_key.questions[q]
                    r == results.questions[q]
                    chosen == FirstOption(student_answers[q])
                IN  /\ r.score \in {0, Tenths(q_data.marks)}
                    /\ r.max_score = Tenths(q_data.marks)
                    /\ IF chosen = None
                       THEN /\ r.score = 0
                            /\ Len(r.feedback) = 3
                            /\ r.feedback[2] = q_data.answer
                       ELSE IF chosen = q_data.answer
                       THEN /\ r.score = Tenths(q_data.marks)
                            /\ r.feedback = <<"Correct answer.">>
                       ELSE /\ r.score = 0
                            /\ Len(r.feedback) = 5
                            /\ r.feedback[2] = chosen
                            /\ r.feedback[4] = q_data.answer

\* C7 witness: a lower-case "c" taken as option C against the key's B
C7_Witness ==
    /\ Returned
    /\ \E q \in Attempted :
          /\ answer_key.questions[q].type = "mcq"
          /\ student_answers[q] = AnswerLowerC
          /\ results.questions[q].score = 0
          /\ Len(results.questions[q].feedback) = 5

\* C8: a key question the submission has no answer for gets score 0,
\* feedback "Question not attempted" and its mark allocation as max_score; it
\* is not sent to the collaborator and adds nothing to total_score.
C8_NotAttempted ==
    pc \in {"waiting", "done"} =>
        /\ \A q \in (DOMAIN answer_key.questions) \ (DOMAIN student_answers) :
              /\ results.questions[q].score = 0
              /\ results.questions[q].feedback = <<"Question not attempted">>
              /\ results.questions[q].max_score
                    = Tenths(AllocatedMarks(answer_key.questions[q]))
              /\ \A item \in Items : item.q_num # q
        /\ Returned =>
              results.summary.total_score
                  = Sum([q \in Attempted |-> results.questions[q].score])

\* C8 witness: a sheet with one question left out and another one graded
\* with a score above 0
C8_Witness ==
    /\ Returned
    /\ (DOMAIN answer_key.questions) \ (DOMAIN student_answers) # {}
    /\ results.summary.total_score > 0

\* C9: total_possible of the result is the key's metadata.total_marks,
\* whichever questions were attempted and whatever the collaborator returned.
C9_TotalPossibleIsKeyTotal ==
    pc \in {"waiting", "done"} =>
        results.summary.total_possible
            = Tenths(answer_key.metadata.total_marks)

\* C9 witness: a graded sheet that left a question out
C9_Witness ==
    /\ Returned
    /\ outcome = "SUCCESS"
    /\ (DOMAIN answer_key.questions) \ (DOMAIN student_answers) # {}
    /\ results.summary.total_possible > 0

\* C10: the entry of an attempted composite question has exactly the key's
\* sub-question letters, the sum of their scores as score and the sum of the
\* key's sub-question marks as max_score.
C10_CompositeRollUp ==
    Returned =>
        \A q \in Attempted :
            answer_key.questions[q].type = "composite" =>
                LET q_data == answer_key.questions[q]
                    r == results.questions[q]
                IN  /\ q \in DOMAIN results.questions
                    /\ "subquestions" \in DOMAIN r
                    /\ DOMAIN r.subquestions = DOMAIN q_data.subquestions
                    /\ r.score = SumScores(r.subquestions)
                    /\ r.max_score = Tenths(SumMarks(q_data.subquestions))

\* C10 witness: sub-questions of 3 and 2 marks rolled up to a max_score of 5
C10_Witness ==
    /\ Returned
    /\ \E q \in Attempted :
          /\ answer_key.questions[q].type = "composite"
          /\ DOMAIN answer_key.questions[q].subquestions = {<<"a">>, <<"b">>}
          /\ answer_key.questions[q].subquestions[<<"a">>].marks = 3
          /\ answer_key.questions[q].subquestions[<<"b">>].marks = 2
          /\ results.questions[q].max_score = Tenths(5)
          /\ results.questions[q].score > 0

\* the distance between two integers
Dist(a, b) == IF a >= b THEN a - b ELSE b - a

\* C11: the percentage of a returned result is total_score / total_possible
\* * 100 rounded to 2 decimal places (in hundredths of a percent: the integer
\* nearest to 10000 * total_score / total_possible) when total_possible > 0,
\* and 0 when total_possible is 0.
C11_Percentage ==
    Returned =>
        LET s == results.summary
        IN  IF s.total_possible > 0
            THEN 2 * Dist(s.percentage * s.total_possible,
                          10000 * s.total_score) <= s.total_possible
            ELSE s.percentage = 0

\* C11 witness: a positive total that is not a whole number of hundredths of
\* a percent of the total possible, so that the rounding acts
C11_Witness ==
    /\ Returned
    /\ results.summary.total_possible > 0
    /\ results.summary.total_score > 0
    /\ (10000 * results.summary.total_score) % results.summary.total_possible # 0

\* C12: the document a call of _parse_answer_key returns depends only on the
\* text it is given, not on earlier calls: it is the document of a parse of
\* that text from scratch, and the call raises exactly when that parse does.
\* Two calls on the same text therefore return identical documents.
C12_ParseDependsOnTextOnly ==
    ppc \in {"done", "raised"} =>
        LET Same(scratch) ==
                IF scratch.raised THEN ppc = "raised"
                ELSE ppc = "done" /\ result = scratch.key
        IN  Same(ParseAnswerKey(key_lines))

\* C12 witness: a later call has returned a composite question with marks
C12_Witness ==
    /\ earlier_parse
    /\ ppc = "done"
    /\ \E q \in DOMAIN result.questions :
          /\ result.questions[q].type = "composite"
          /\ result.metadata.total_marks > 0

\* the path names a PDF: its extension is .pdf in any mix of cases
NamesPdf == Lower(SplitExt(file_path)) = DotPdf

\* C13: extract_answers raises FileNotFoundError exactly when the file does
\* not exist, whatever its extension, and ValueError exactly when it exists
\* with an extension other than .pdf (compared case-insensitively); in both
\* cases nothing has been opened and no document has been produced.
C13_FileChecks ==
    xpc \notin {"idle", "start"} =>
        /\ xpc = "FileNotFoundError" <=> ~file_exists
        /\ xpc = "ValueError" <=> (file_exists /\ ~NamesPdf)
        /\ xpc \in {"FileNotFoundError", "ValueError"} =>
              ~opened /\ structured_answers = None

\* C13 witness: a missing path with another extension reports not-found
C13_Witness ==
    /\ xpc = "FileNotFoundError"
    /\ file_path = PathTxt
    /\ ~opened

\* C14: after any prefix of the lines, and in the document returned, a
\* question has at least one sub-question exactly when its type is
\* composite, and the own marks of every such question are 0.
C14_CompositeShape ==
    \A q \in DOMAIN result.questions :
        LET q_data == result.questions[q]
            has_sub == q_data.has_subquestions
                       /\ DOMAIN q_data.subquestions # {}
        IN  /\ has_sub <=> q_data.type = "composite"
            /\ has_sub => q_data.marks = 0

\* C14 witness: the parse is under way and a question that came with 2 marks
\* of its own has a sub-question
C14_Witness ==
    /\ ppc = "parsing"
    /\ key_lines # <<>>
    /\ key_lines[1] = LineQuestion1
    /\ <<"1">> \in DOMAIN result.questions
    /\ result.questions[<<"1">>].type = "composite"
    /\ DOMAIN result.questions[<<"1">>].subquestions # {}
    /\ result.questions[<<"1">>].marks = 0

\* C15: every line read is classified in the order MCQ line, question
\* header, sub-question header, continuation.  A line the MCQ pattern matches
\* leaves an mcq entry under its number; a line only the question pattern
\* matches leaves a fresh descriptive entry and starts a new buffer; a line
\* the sub-question pattern matches opens a sub-question of the question in
\* progress (or raises) when a question is open, and is handled as an
\* unmatched line (dropped, no question being open) otherwise; an unmatched
\* line is appended to the buffer of the question in progress.
C15_ClassificationOrder ==
    [][Len(key_lines') = Len(key_lines) + 1 =>
        LET line == last_line'
            mcq_match == mcq_pattern(line)
            q_match == question_pattern(line)
            sub_match == subquestion_pattern(line)
            open == Truthy(current_question)
        IN  /\ mcq_match.ok =>
                    /\ mcq_match.g1 \in DOMAIN result'.questions
                    /\ result'.questions[mcq_match.g1].type = "mcq"
                    /\ current_question' = mcq_match.g1
                    /\ current_subquestion' = None
            /\ (~mcq_match.ok /\ q_match.ok) =>
                    /\ q_match.g1 \in DOMAIN result'.questions
                    /\ result'.questions[q_match.g1].type = "descriptive"
                    /\ ~result'.questions[q_match.g1].has_subquestions
                    /\ current_question' = q_match.g1
                    /\ current_subquestion' = None
                    /\ answer_text_buffer' = <<Strip(q_match.g2)>>
            /\ (~mcq_match.ok /\ ~q_match.ok /\ sub_match.ok /\ open) =>
                    \/ ppc' = "raised"
                    \/ /\ current_question' = current_question
                        /\ current_subquestion' = sub_match.g1
                        /\ result'.questions[current_question].type = "composite"
                        /\ sub_match.g1 \in
                              DOMAIN result'.questions[current_question].subquestions
            /\ (~mcq_match.ok /\ ~q_match.ok /\ ~open) =>
                    UNCHANGED <<result, current_question, current_subquestion,
                                answer_text_buffer>>
            /\ (~mcq_match.ok /\ ~q_match.ok /\ ~sub_match.ok /\ open) =>
                    /\ answer_text_buffer' = Append(answer_text_buffer, line)
                    /\ UNCHANGED <<result, current_question,
                                   current_subquestion>>
    ]_vars

\* C15 witness: a sub-question line read with no question open has left
\* nothing behind, and the line after it, which both the MCQ pattern and the
\* question pattern match, has left an mcq entry
C15_Witness ==
    /\ ppc = "parsing"
    /\ key_lines = <<LineSubA, LineMcqMarks>>
    /\ last_line = LineMcqMarks
    /\ mcq_pattern(last_line).ok
    /\ question_pattern(last_line).ok
    /\ DOMAIN result.questions = {<<"1">>}
    /\ result.questions[<<"1">>].type = "mcq"

\* the key lines that start a question, and those that start a sub-question
StartsQuestion(line) == mcq_pattern(line).ok \/ question_pattern(line).ok
StartsSubquestion(line) ==
    ~StartsQuestion(line) /\ subquestion_pattern(line).ok

\* the position of the line the entry of question q comes from: the last
\* line that starts question q
HeaderOf(q) ==
    CHOOSE i \in DOMAIN key_lines :
        /\ StartsQuestion(key_lines[i])
        /\ question_pattern(key_lines[i]).g1 = q
        /\ \A j \in DOMAIN key_lines :
                (j > i /\ StartsQuestion(key_lines[j]))
                    => question_pattern(key_lines[j]).g1 # q

\* the position of the line sub-question l of question q comes from: the
\* last line that starts sub-question l before the question after q
SubHeaderOf(q, l) ==
    LET Within(i) ==
            /\ i > HeaderOf(q)
            /\ \A j \in DOMAIN key_lines :
                    (HeaderOf(q) < j /\ j < i) => ~StartsQuestion(key_lines[j])
            /\ StartsSubquestion(key_lines[i])
            /\ subquestion_pattern(key_lines[i]).g1 = l
    IN  CHOOSE i \in DOMAIN key_lines :
            Within(i) /\ \A j \in DOMAIN key_lines : Within(j) => j <= i

\* the rest of the header line at position i, then the lines after it up to
\* the next question, sub-question or the end of the text, joined by newlines
TextFrom(i, rest_of_line) ==
    LET stops == {j \in DOMAIN key_lines :
                    /\ j > i
                    /\ (StartsQuestion(key_lines[j])
                        \/ StartsSubquestion(key_lines[j]))}
        end == IF stops = {} THEN Len(key_lines) + 1 ELSE Leftmost(stops)
    IN  Join(<<rest_of_line>> \o SubSeq(key_lines, i + 1, end - 1), NL)

\* C16: in the document returned, every descriptive question and every
\* sub-question has an answer_text, and it is the newline-join of the rest of
\* its header line and of the lines that follow it up to the next question
\* (MCQ line or question header), the next sub-question or the end of the text.
C16_AnswerTextIsWholeBuffer ==
    ppc = "done" =>
        \A q \in DOMAIN result.questions :
            LET q_data == result.questions[q]
                h == HeaderOf(q)
            IN  /\ q_data.type = "descriptive" =>
                    /\ q_data.has_answer_text
                    /\ q_data.answer_text =
                          TextFrom(h, Strip(question_pattern(key_lines[h]).g2))
                /\ q_data.type = "composite" =>
                    \A l \in DOMAIN q_data.subquestions :
                        LET sub_data == q_data.subquestions[l]
                            k == SubHeaderOf(q, l)
                        IN  /\ sub_data.has_answer_text
                            /\ sub_data.answer_text =
                                  TextFrom(k, Strip(subquestion_pattern(key_lines[k]).g2))

\* a trimmed line made of an optional "Question" (and blanks), a number and
\* an optional "." or ")", with nothing else
HeaderShape(t) ==
    \E a \in 0..Len(t), b \in 1..Len(t) :
        /\ a < b
        /\ \/ a = 0
           \/ /\ a >= 8
              /\ SubSeq(t, 1, 8) = QuestionWord
              /\ \A i \in 9..a : IsSpace(t[i])
        /\ \A i \in (a + 1)..b : IsDigit(t[i])
        /\ SubSeq(t, b + 1, Len(t)) \in {<<>>, <<".">>, <<")">>}

\* the digits of a text, in order
RECURSIVE DigitsOf(_)
DigitsOf(t) ==
    IF t = <<>> THEN <<>>
    ELSE (IF IsDigit(Head(t)) THEN <<Head(t)>> ELSE <<>>) \o DigitsOf(Tail(t))

\* the lines of kept between position i and the next position of headers,
\* or the end
OcrBlock(kept, headers, i) ==
    LET next == {j \in headers : j > i}
        end == IF next = {} THEN Len(kept) + 1 ELSE Leftmost(next)
    IN  SubSeq(kept, i + 1, end - 1)

\* C17: what extract_answers_from_ocr returns has an answer exactly for the
\* numbers of the header-shaped lines that have lines after them, and the
\* answer is the trimmed newline-join of the non-blank lines between the
\* (last such) header and the next header or the end of the text; a line of
\* any other shape starts no question, and the lines before the first header
\* are in no answer.
C17_OcrAnswers ==
    opc = "returned" =>
        LET \* the trimmed non-blank lines of the text
            kept == NonEmpty(StripEach(ocr_lines))
            headers == {j \in DOMAIN kept : HeaderShape(kept[j])}
            \* the headers that have lines after them
            filled == {j \in headers : OcrBlock(kept, headers, j) # <<>>}
        IN  /\ DOMAIN ocr_answers = {DigitsOf(kept[j]) : j \in filled}
            /\ \A i \in filled :
                  (\A j \in filled :
                        DigitsOf(kept[j]) = DigitsOf(kept[i]) => j <= i)
                  => ocr_answers[DigitsOf(kept[i])] =
                        Strip(Join(OcrBlock(kept, headers, i), NL))

\* C17 witness: a text whose first line comes before any header, with a
\* header followed by a line that has a number and text, a blank line and a
\* padded line
C17_Witness ==
    /\ opc = "returned"
    /\ Len(ocr_lines) = MaxOcrLines
    /\ ocr_lines[1] = OcrText
    /\ ocr_lines[2] = OcrHeaderQuestion
    /\ OcrNumberedText \in {ocr_lines[i] : i \in 3..Len(ocr_lines)}
    /\ OcrPaddedText \in {ocr_lines[i] : i \in 3..Len(ocr_lines)}
    /\ DOMAIN ocr_answers = {<<"2">>}
    /\ Len(ocr_answers[<<"2">>]) = Len(OcrNumberedText) + 1 + 4

\* the length of the leading run of "(" and whitespace of a line
LeadIn(line) == RunStartingAt(line, 1, {"("} \cup SpaceChars)

\* a line that begins, after optional "(" or whitespace, with a lowercase
\* letter immediately followed by ")" or "."
MarksPart(line) ==
    /\ LeadIn(line) + 2 <= Len(line)
    /\ IsLower(line[LeadIn(line) + 1])
    /\ line[LeadIn(line) + 2] \in {")", "."}

\* the text collected from the marker line at position i of lines: what is
\* left of that line, then the lines up to the next position of markers or
\* the end
PartFrom(lines, markers, i) ==
    LET next == {j \in markers : j > i}
        end == IF next = {} THEN Len(lines) + 1 ELSE Leftmost(next)
        rest == SubSeq(lines[i], LeadIn(lines[i]) + 3, Len(lines[i]))
    IN  Strip(Join(<<Strip(rest)>> \o SubSeq(lines, i + 1, end - 1), NL))

\* C18: what _parse_subquestions returns has a part exactly for the letters
\* of the lines that begin (after optional "(" or whitespace) with a
\* lowercase letter immediately followed by ")" or ".", the part being what
\* is left of (the last such) line and the lines after it up to the next such
\* line; the lines before the first such line are in no part.  For
\* "a) answer one\nb) answer two" it returns a: "answer one", b: "answer two".
C18_PartsStartAtMarkers ==
    spc = "returned" =>
        LET lines == Split(sub_text, "\n")
            markers == {i \in DOMAIN lines : MarksPart(lines[i])}
            LetterAt(i) == <<lines[i][LeadIn(lines[i]) + 1]>>
        IN  /\ DOMAIN sub_parts = {LetterAt(i) : i \in markers}
            /\ \A i \in markers :
                  (\A j \in markers : LetterAt(j) = LetterAt(i) => j <= i)
                  => sub_parts[LetterAt(i)] = PartFrom(lines, markers, i)
            /\ sub_text = PartsExample =>
                  sub_parts = (<<"a">> :> SubSeq(PartsExample, 4, 13)
                               @@ <<"b">> :> SubSeq(PartsExample, 18, 27))

\* C19: once evaluate_answers has collected its items, every sub-question
\* letter of every attempted composite question has exactly one item; the
\* item carries the part _parse_subquestions produced for the letter, with
\* partial false, when there is one, and the whole answer text of the
\* question, with partial true, when there is none.
C19_PartialItems ==
    pc \in {"waiting", "done", "raised"} =>
        \A q \in Attempted :
            answer_key.questions[q].type = "composite" =>
                LET ForLetters(parts) ==
                        \A l \in DOMAIN answer_key.questions[q].subquestions :
                            LET sent == {i \in DOMAIN descriptive_questions :
                                    /\ descriptive_questions[i].q_num = q
                                    /\ descriptive_questions[i].sub_letter = l}
                            IN  /\ Cardinality(sent) = 1
                                /\ \A i \in sent :
                                      LET item == descriptive_questions[i]
                                      IN  /\ item.type = "composite_sub"
                                          /\ item.answer_key_data =
                                                answer_key.questions[q].subquestions[l]
                                          /\ IF l \in DOMAIN parts
                                             THEN /\ item.partial = FALSE
                                                  /\ item.student_answer = parts[l]
                                             ELSE /\ item.partial = TRUE
                                                  /\ item.student_answer =
                                                        student_answers[q]
                IN  ForLetters(ParseSubquestions(student_answers[q]))

\* C19 witness: the answer to a composite question with sub-questions a and
\* b is "c gene", which has no part a and no part b; both items carry the
\* whole text and are flagged
C19_Witness ==
    /\ pc = "waiting"
    /\ Len(descriptive_questions) = 2
    /\ \A i \in DOMAIN descriptive_questions :
          /\ descriptive_questions[i].type = "composite_sub"
          /\ descriptive_questions[i].partial = TRUE
          /\ descriptive_questions[i].student_answer = AnswerLowerC
    /\ {descriptive_questions[i].sub_letter : i \in DOMAIN descriptive_questions}
          = {<<"a">>, <<"b">>}

\* the items of a returned run that _estimate_score has scored
HeuristicItems ==
    {item \in Items : /\ QId(item) \in DOMAIN scored_by
                      /\ scored_by[QId(item)] = "heuristic"}

\* C20: a score given by _estimate_score lies between 0 and max_score, and
\* is matched_points / total_points * max_score rounded to one decimal, with
\* total_points the number of key points and matched_points, at most
\* total_points, the number of them that count as matched; with no key point
\* given or derivable from answer_text the score is 0 and the feedback says
\* the answer could not be evaluated.
C20_HeuristicScore ==
    Returned =>
        \A item \in HeuristicItems :
            LET max_score == Tenths(item.answer_key_data.marks)
                Scored(leaf, key_points) ==
                    LET total_points == Len(key_points)
                        matched_points ==
                            Cardinality({i \in DOMAIN key_points :
                                PointMatched(key_points[i],
                                             Lower(item.student_answer))})
                    IN  /\ 0 <= leaf.score
                        /\ leaf.score <= max_score
                        /\ leaf.max_score = max_score
                        /\ IF total_points = 0
                           THEN /\ leaf.score = 0
                                /\ leaf.feedback = FeedbackUnable
                           ELSE /\ matched_points <= total_points
                                /\ 2 * Dist(total_points * leaf.score,
                                            matched_points * max_score)
                                      <= total_points
                                /\ leaf.feedback # FeedbackUnable
            IN  Scored(Leaf(item), KeyPointsFor(item.answer_key_data))

\* C20 witness: a run returned in which _estimate_score has given part of
\* the marks (one key point of two matched, 1.5 of 3) to one answer
C20_Witness ==
    /\ Returned
    /\ \E item \in HeuristicItems :
          /\ Len(KeyPointsFor(item.answer_key_data)) = 2
          /\ Leaf(item).score = 15
          /\ Leaf(item).max_score = 30

\* the whole tokens of a text: its maximal runs of word characters
TokensOf(text) ==
    {SubSeq(text, i, j) : i \in DOMAIN text, j \in DOMAIN text} \cap
    {SubSeq(text, i, i + RunStartingAt(text, i, WordChars) - 1) :
        i \in {k \in DOMAIN text : /\ text[k] \in WordChars
                                   /\ (k = 1 \/ text[k - 1] \notin WordChars)}}

\* strictly more than half of the significant words of a key point are
\* whole tokens of the answer
MatchedByTokens(point, tokens) ==
    LET Enough(keywords) ==
            2 * Cardinality({i \in DOMAIN keywords : keywords[i] \in tokens})
                > Len(keywords)
    IN  Enough(Keywords(point))

\* C21: the score _estimate_score returns counts a key point as matched
\* exactly when strictly more than half of its significant words (tokens
\* longer than 3 characters), lower-cased, are whole tokens of the lower-cased
\* answer; a word found only inside a longer word of the answer is not
\* counted.
C21_WholeTokenMatch ==
    epc = "returned" =>
        LET Scored(key_points, tokens) ==
                key_points # <<>> =>
                    est_out.score =
                        RoundHalfEven(
                            Cardinality({i \in DOMAIN key_points :
                                MatchedByTokens(key_points[i], tokens)})
                            * est_max_score,
                            Len(key_points))
        IN  Scored(KeyPointsFor(est_key_data), TokensOf(Lower(est_answer)))

\* the positions of the sheets handled whose evaluation completed
RECURSIVE Evaluated(_)
Evaluated(fates) ==
    IF fates = <<>> THEN <<>>
    ELSE Evaluated(SubSeq(fates, 1, Len(fates) - 1))
         \o (IF fates[Len(fates)] \in {"none", "writing", "upload"}
             THEN <<Len(fates)>> ELSE <<>>)

\* C22: process_answer_sheets ends by returning, with every sheet of the
\* list handled whatever was raised for the sheets before it, and the
\* consolidated results are those of exactly the sheets whose evaluation
\* completed.
C22_ErrorAbortsOneSheet ==
    shpc \in {"returned", "raised"} =>
        /\ shpc = "returned"
        /\ Len(sheet_fates) = answer_sheets
        /\ all_results = Evaluated(sheet_fates)
        /\ consolidated = IF all_results # <<>> THEN all_results ELSE None

\* C23: the polling loop ends, and recognize_handwriting returns: there are
\* never more than 60 polls, no poll is made after one whose status is
\* "succeeded", the loop is left only at such a poll or at the 60th, and
\* the text returned is that of the last response, empty when it has no
\* analyzeResult (or no readResults in it).
C23_PollingTerminates ==
    /\ [](polls <= 60)
    /\ [](plpc \in {"polled", "returned"} =>
            \/ (poll_result.has_status /\ poll_result.status = "succeeded")
            \/ polls = 60)
    /\ [][(polls > 0 /\ poll_result.has_status
            /\ poll_result.status = "succeeded")
          => UNCHANGED <<polls, poll_result>>]_vars
    /\ [](plpc = "returned" =>
            /\ poll_result.analyze # "read" => extracted_text = <<>>
            /\ poll_result.analyze = "read" =>
                    extracted_text = LineText \o NL \o LineQuestion1 \o NL)
    /\ <>(plpc = "returned")

\* C23 witness: the 60th poll has been made, its status is not "succeeded"
\* and it has no analyzeResult; the text returned is empty
C23_Witness ==
    /\ plpc = "returned"
    /\ polls = 60
    /\ poll_result.has_status
    /\ poll_result.status = "running"
    /\ poll_result.analyze = "absent"
    /\ extracted_text = <<>>


\* what evaluate_answers returns for a key, a submission and a collaborator
\* reply when it is the only call ever made
EvaluatedAlone(key, answers, resp) ==
    LET Whole(first) ==
            IF first.descriptive_questions = <<>>
            THEN Finish(first.results, first.mcq_results)
            ELSE LET Merged(b) ==
                         Finish(MergeAll(first.results, answers,
                                         SetToSeq(DOMAIN b.results),
                                         b.results),
                                first.mcq_results)
                 IN  Merged(BatchEvaluateDescriptive(
                                first.descriptive_questions, resp))
    IN  Whole(FirstPass(key, answers))

\* C24: evaluate_answers writes neither into the answer key nor into the
\* submission it was given, and what it returns for a sheet is what it
\* returns for that sheet alone, for the same collaborator reply, however
\* many sheets were evaluated before it against the same key.
C24_SheetsAreIndependent ==
    /\ [][answer_key' = answer_key]_vars
    /\ [][pc = "waiting" => student_answers' = student_answers]_vars
    /\ [](pc = "done" =>
            results = EvaluatedAlone(answer_key, student_answers, response))

\* C24 witness: a sheet evaluated after an earlier one, with one item scored
\* by the collaborator and another question not attempted
C24_Witness ==
    /\ pc = "done"
    /\ earlier_sheet
    /\ \E id \in DOMAIN scored_by : scored_by[id] = "collaborator"
    /\ \E q \in DOMAIN answer_key.questions : q \notin DOMAIN student_answers


\* the scores of the leaves of a questions map summed: the sub-question
\* scores of an entry that has sub-questions, the entry's own score otherwise
LeafScores(questions) ==
    Sum([q \in DOMAIN questions |->
            IF "subquestions" \in DOMAIN questions[q]
            THEN SumScores(questions[q].subquestions)
            ELSE questions[q].score])

\* C25: in every result of evaluate_answers, summary.total_score is the sum
\* of the score fields of the entries of the questions map, which is also
\* the sum of the scores of its leaves.
C25_TotalScoreIsSum ==
    Returned =>
        /\ results.summary.total_score = SumScores(results.questions)
        /\ results.summary.total_score = LeafScores(results.questions)

\* C25 witness: a result with an MCQ answered correctly and a composite
\* question with a sub-question score above 0
C25_Witness ==
    /\ Returned
    /\ \E q \in DOMAIN mcq_results : results.questions[q].score > 0
    /\ \E q \in DOMAIN results.questions :
          /\ "subquestions" \in DOMAIN results.questions[q]
          /\ results.questions[q].score > 0


\* the entry of the reply for an item is there and is malformed
Malformed(item) ==
    /\ QId(item) \in DOMAIN response.evaluation
    /\ response.evaluation[QId(item)].shape # "ok"

\* the result has a leaf for every item of the request and for nothing else
\* that was attempted and is not an MCQ
LeavesAreItems ==
    /\ {q \in Attempted : answer_key.questions[q].type # "mcq"}
          = {item.q_num : item \in Items}
    /\ \A item \in Items :
          /\ item.q_num \in DOMAIN results.questions
          /\ item.type = "composite_sub" =>
                /\ "subquestions" \in DOMAIN results.questions[item.q_num]
                /\ DOMAIN results.questions[item.q_num].subquestions
                      = {other.sub_letter :
                            other \in {i \in Items : i.q_num = item.q_num}}

\* C26: a batched attempt ends in exactly one of SUCCESS (every item scored
\* from the reply), ITEM_FALLBACK (the reply parsed, the items it has no
\* entry for scored by the heuristic scorer) and BULK_FALLBACK (the call
\* failed, no JSON object was found or the reply could not be processed:
\* every item scored by the heuristic scorer); it never raises, no outcome
\* is there before the reply, and in each outcome there is a result for
\* exactly the submitted items, each with the marks of its key entry as
\* max_score.
C26_AttemptOutcomes ==
    /\ pc = "waiting" => outcome = "none"
    /\ (pc \in {"done", "raised"} /\ descriptive_questions # <<>>) =>
          /\ Returned
          /\ outcome \in {"SUCCESS", "ITEM_FALLBACK", "BULK_FALLBACK"}
          /\ DOMAIN scored_by = {QId(item) : item \in Items}
          /\ outcome = "SUCCESS" =>
                /\ response.kind = "mapping"
                /\ \A item \in Items : scored_by[QId(item)] = "collaborator"
          /\ outcome = "ITEM_FALLBACK" =>
                /\ response.kind = "mapping"
                /\ \E item \in Items :
                      QId(item) \notin DOMAIN response.evaluation
                /\ \A item \in Items :
                      scored_by[QId(item)] =
                          IF QId(item) \in DOMAIN response.evaluation
                          THEN "collaborator" ELSE "heuristic"
          /\ outcome = "BULK_FALLBACK" =>
                /\ \/ response.kind \in {"raises", "no_json", "bad_json"}
                   \/ \E item \in Items : Malformed(item)
                /\ \A item \in Items : scored_by[QId(item)] = "heuristic"
          /\ LeavesAreItems
          /\ \A item \in Items :
                Leaf(item).max_score = Tenths(item.answer_key_data.marks)

\* C26 witness: a reply with an entry for one of two sub-question items only
C26_Witness ==
    /\ Returned
    /\ outcome = "ITEM_FALLBACK"
    /\ \E i, j \in Items :
          /\ i.type = "composite_sub"
          /\ j.type = "composite_sub"
          /\ scored_by[QId(i)] = "collaborator"
          /\ scored_by[QId(j)] = "heuristic"


\* C27: when the reply parses to a mapping and the entry of one submitted
\* item lacks its score or its feedback, or has a score that is no number
\* (or is no mapping at all), every submitted item, those with a valid entry
\* before the malformed one included, has the heuristic scorer's result.
C27_MalformedEntryFallsBackAll ==
    (/\ Returned
     /\ response.kind = "mapping"
     /\ \E item \in Items : Malformed(item)) =>
        /\ outcome = "BULK_FALLBACK"
        /\ \A item \in Items :
              /\ HeuristicLeaf(item)
              /\ Leaf(item).feedback # CollaboratorFeedback

\* C27 witness: the first item of the request has a valid entry and the
\* second one an entry without feedback
C27_Witness ==
    /\ Returned
    /\ response.kind = "mapping"
    /\ Len(descriptive_questions) = 2
    /\ DOMAIN response.evaluation = {QId(item) : item \in Items}
    /\ response.evaluation[QId(descriptive_questions[1])].shape = "ok"
    /\ response.evaluation[QId(descriptive_questions[2])].shape = "no_feedback"


\* C28: when _parse_answer_key has finished, metadata.total_questions is the
\* number of entries of the questions map.  (Violated: a question number
\* that comes again on a later MCQ or question-header line is counted again
\* while its entry is replaced.)
C28_TotalQuestionsIsEntryCount ==
    ppc = "done" =>
        result.metadata.total_questions = Cardinality(DOMAIN result.questions)


\* no line read so far is an MCQ line or a question header: no question has
\* been opened
NoQuestionOpened ==
    \A i \in DOMAIN key_lines :
        /\ ~mcq_pattern(key_lines[i]).ok
        /\ ~question_pattern(key_lines[i]).ok

\* C29: as long as no question is open, the lines read, which match no
\* pattern or the sub-question pattern only, leave the questions map, the
\* metadata, the current question, the current sub-question and the buffer
\* as they were at the start, and nothing is raised; a text of such lines
\* only gives the empty document.
C29_DroppedLinesChangeNothing ==
    (ppc \in {"parsing", "done", "raised"} /\ NoQuestionOpened) =>
        /\ ppc # "raised"
        /\ result = ParserInit.result
        /\ current_question = None
        /\ current_subquestion = None
        /\ answer_text_buffer = <<>>

\* C29 witness: a line that matches no pattern, a sub-question header and a
\* bare sub-question header have been read with no question open
C29_Witness ==
    /\ ppc = "parsing"
    /\ key_lines = <<LineText, LineSubA, LineSubBare>>
    /\ result = ParserInit.result


\* C30: a header of the OCR text that no non-blank line follows before the
\* next header or the end gives the submission no answer: a key question
\* whose headers are all such (or that has no header) is scored 0 with
\* "Question not attempted" and an empty answer text; a question that has
\* headers with lines after them is evaluated on the lines after the last
\* such header.
C30_EmptyAnswerNotAttempted ==
    (opc = "returned" /\ Returned) =>
        LET kept == NonEmpty(StripEach(ocr_lines))
            headers == {j \in DOMAIN kept : HeaderShape(kept[j])}
            filled == {j \in headers : OcrBlock(kept, headers, j) # <<>>}
        IN  \A q \in DOMAIN answer_key.questions :
                LET mine == {j \in filled : DigitsOf(kept[j]) = q}
                IN  /\ q \in DOMAIN results.questions
                    /\ mine = {} =>
                          /\ results.questions[q].score = 0
                          /\ results.questions[q].feedback
                                = <<"Question not attempted">>
                          /\ results.questions[q].answer_text = <<>>
                    /\ mine # {} =>
                          /\ results.questions[q].feedback
                                # <<"Question not attempted">>
                          /\ results.questions[q].answer_text =
                                Strip(Join(OcrBlock(kept, headers,
                                                    Rightmost(mine)), NL))

\* C30 witness: the header of question 2 is followed by the header of
\* question 1, and the second header of question 1 by nothing: question 2 is
\* not attempted, question 1 has the answer after its first header
C30_Witness ==
    /\ Returned
    /\ ocr_lines = <<<<" ", "2", ")", " ">>, <<"1", ".">>, AnswerOptionB,
                     <<"1", ".">>>>
    /\ results.questions[<<"2">>].feedback = <<"Question not attempted">>
    /\ results.questions[<<"1">>].answer_text = AnswerOptionB
    /\ results.questions[<<"1">>].score = Tenths(2)

====
